---- MODULE Spec2Model ----
(***************************************************************************)
(* A model of the saturday-ast interpreter: the recursive-descent parser   *)
(* (parser.rs), the static resolver (resolver.rs), the tree-walking        *)
(* interpreter (interpreter.rs) and the driver Saturday::run (main.rs).    *)
(*                                                                         *)
(* The three passes are recursive functions over a token sequence or a     *)
(* syntax tree; each is modelled by RECURSIVE operators that thread the    *)
(* state of the pass (the parser's cursor and had_error flag, the          *)
(* resolver's scope stack, the interpreter's environment slot, heap and    *)
(* nest counter) exactly as the Rust code does through &self / &mut self.  *)
(* The actions of the specifications apply those operators to inputs drawn *)
(* from bounded sets.                                                      *)
(***************************************************************************)
EXTENDS Integers, Sequences, FiniteSets, TLC

VARIABLES
  interp,     \* the Interpreter: environment slot, heap of Environments, nest, functions
  pc,         \* where the driver is: "prompt", "running", "executed", "scanned",
              \* "parsed", "resolved", "returned", "crashed"
  unit,       \* the statements handed to the last pass that ran
  outcome,    \* what the last pass returned
  tokens,     \* the token sequence of the current unit (the scanner's output)
  parser,     \* the Parser: current, had_error, reports
  resolver,   \* the Resolver: scopes, side-table, reports
  units,      \* number of units the session has run
  instance    \* a SaturdayInstance: its class, its field table, the last get or set

vars == <<interp, pc, unit, outcome, tokens, parser, resolver, units, instance>>

(***************************************************************************)
(* Bounds of the model.                                                    *)
(***************************************************************************)
MaxIter == 3        \* iterations of one while loop before it counts as divergent
MaxCallDepth == 2   \* nested calls before the host stack counts as exhausted
MaxUnits == 1       \* units (REPL lines) run in one session

(***************************************************************************)
(* Object (object.rs).  Every value is a record of the same shape.         *)
(***************************************************************************)
Num(n) == [t |-> "Num", n |-> n, s |-> "", b |-> FALSE]
Str(s) == [t |-> "Str", n |-> 0, s |-> s, b |-> FALSE]
Bool(b) == [t |-> "Bool", n |-> 0, s |-> "", b |-> b]
Func(id) == [t |-> "Func", n |-> id, s |-> "", b |-> FALSE]
Nil == [t |-> "Nil", n |-> 0, s |-> "", b |-> FALSE]
ArithmeticError == [t |-> "ArithmeticError", n |-> 0, s |-> "", b |-> FALSE]

\* impl Display for Object; printing the sentinel panics
Display(o) ==
  CASE o.t = "Num" -> ToString(o.n)
    [] o.t = "Str" -> o.s
    [] o.t = "Bool" -> (IF o.b THEN "true" ELSE "false")
    [] o.t = "Func" -> "<func>"
    [] o.t = "Nil" -> "nil"
    [] OTHER -> "panic"

(***************************************************************************)
(* Token, Expr and Stmt.  A token carries its index in the token sequence  *)
(* (pos); the node built around a name token is identified by that index,  *)
(* which stands for the Rc pointer identity the side-table is keyed by.    *)
(***************************************************************************)
Token(type, lexeme, pos) ==
  [type |-> type, lexeme |-> lexeme, pos |-> pos, literal |-> Nil]
NoToken == Token("None", "", 0)
NoneNode == [kind |-> "None"]

AssignExpr(name, value) == [kind |-> "Assign", name |-> name, value |-> value]
BinaryExpr(left, operator, right) ==
  [kind |-> "Binary", left |-> left, operator |-> operator, right |-> right]
CallExpr(callee, paren, arguments) ==
  [kind |-> "Call", callee |-> callee, paren |-> paren, arguments |-> arguments]
GetExpr(object, name) == [kind |-> "Get", object |-> object, name |-> name]
SetExpr(object, name, value) ==
  [kind |-> "Set", object |-> object, name |-> name, value |-> value]
GroupingExpr(expression) == [kind |-> "Grouping", expression |-> expression]
LiteralExpr(value) == [kind |-> "Literal", literal |-> value]
LogicalExpr(left, operator, right) ==
  [kind |-> "Logical", left |-> left, operator |-> operator, right |-> right]
UnaryExpr(operator, right) == [kind |-> "Unary", operator |-> operator, right |-> right]
VariableExpr(name) == [kind |-> "Variable", name |-> name]

BlockStmt(statements) == [kind |-> "Block", statements |-> statements]
BreakStmt(token) == [kind |-> "Break", token |-> token]
ClassStmt(name, methods) == [kind |-> "Class", name |-> name, methods |-> methods]
DefStmt(name, initializer) == [kind |-> "Def", name |-> name, initializer |-> initializer]
ExpressionStmt(expression) == [kind |-> "Expression", expression |-> expression]
FunctionStmt(name, params, body) ==
  [kind |-> "Function", name |-> name, params |-> params, statements |-> body]
IfStmt(condition, then_branch, else_branch) ==
  [kind |-> "If", condition |-> condition, then_branch |-> then_branch,
   else_branch |-> else_branch]
PrintStmt(expression) == [kind |-> "Print", expression |-> expression]
ReturnStmt(keyword, value) == [kind |-> "Return", keyword |-> keyword, value |-> value]
WhileStmt(condition, body) == [kind |-> "While", condition |-> condition, body |-> body]

(***************************************************************************)
(* SaturdayResult (error.rs) and the Return signal interpreter.rs raises.  *)
(* "Diverge" is not a value of the program: it marks an evaluation that    *)
(* never returns (a loop past MaxIter, a recursion past MaxCallDepth).     *)
(***************************************************************************)
Ok == [k |-> "Ok", msg |-> "", token |-> NoToken, value |-> Nil]
ParseError(token, msg) == [k |-> "ParseError", msg |-> msg, token |-> token, value |-> Nil]
RuntimeError(token, msg) ==
  [k |-> "RuntimeError", msg |-> msg, token |-> token, value |-> Nil]
Error(msg) == [k |-> "Error", msg |-> msg, token |-> NoToken, value |-> Nil]
SystemError(msg) == [k |-> "SystemError", msg |-> msg, token |-> NoToken, value |-> Nil]
Break == [k |-> "Break", msg |-> "", token |-> NoToken, value |-> Nil]
ReturnValue(v) == [k |-> "Return", msg |-> "", token |-> NoToken, value |-> v]
Diverge == [k |-> "Diverge", msg |-> "", token |-> NoToken, value |-> Nil]
Panic(msg) == [k |-> "Panic", msg |-> msg, token |-> NoToken, value |-> Nil]

(***************************************************************************)
(* The Scanner's output.  A source is a sequence of lexemes; scan_tokens   *)
(* gives each its TokenType and its index and appends Eof.                 *)
(***************************************************************************)

scan_token(lexeme, pos) ==
  LET Keywords ==
        [and |-> "And", class |-> "Class", else |-> "Else", false |-> "False",
         for |-> "For", fun |-> "Fun", if |-> "If", nil |-> "Nil", or |-> "Or",
         print |-> "Print", return |-> "Return", super |-> "Super", this |-> "This",
         true |-> "True", var |-> "Var", def |-> "Def", while |-> "While",
         break |-> "Break"]
      Symbols ==
        ("(" :> "LeftParen") @@ (")" :> "RightParen") @@ ("{" :> "LeftBrace")
          @@ ("}" :> "RightBrace") @@ ("," :> "Comma") @@ ("." :> "Dot")
          @@ ("-" :> "Minus") @@ ("+" :> "Plus") @@ (";" :> "SemiColon")
          @@ ("/" :> "Slash") @@ ("*" :> "Star") @@ ("!" :> "Bang")
          @@ ("!=" :> "BangEqual") @@ ("=" :> "Assign") @@ ("==" :> "Equal")
          @@ (">" :> "Greater") @@ (">=" :> "GreaterEqual") @@ ("<" :> "Less")
          @@ ("<=" :> "LessEqual")
      Numbers == ("1" :> 1) @@ ("2" :> 2)
  IN
    CASE lexeme \in DOMAIN Symbols -> Token(Symbols[lexeme], lexeme, pos)
      [] lexeme \in DOMAIN Keywords -> Token(Keywords[lexeme], lexeme, pos)
      [] lexeme \in DOMAIN Numbers ->
           [Token("Number", lexeme, pos) EXCEPT !.literal = Num(Numbers[lexeme])]
      [] OTHER -> Token("Identifier", lexeme, pos)

scan_tokens(source) ==
  [i \in 1..(Len(source) + 1) |->
     IF i <= Len(source) THEN scan_token(source[i], i) ELSE Token("Eof", "", i)]

(***************************************************************************)
(* The Parser (parser.rs).  ps is the parser's state:                      *)
(*   tokens     the token sequence, ending with Eof                        *)
(*   current    the number of tokens consumed (the index of the next one,  *)
(*              counting from 0)                                           *)
(*   had_error  set by Parser::error                                       *)
(*   reports    the parse errors printed by SaturdayResult::parse_error    *)
(* and one history field that the code does not have:                      *)
(*   trace      an event per synchronize, per invalid assignment target    *)
(*              and per iteration of a loop over statements or tokens      *)
(* A parsing function returns [r, v, ps]: the result kind, the node (or    *)
(* token, or list of nodes) built, and the parser afterwards.              *)
(***************************************************************************)
MaxArguments == 255

Parser(scanned) ==
  [tokens |-> scanned, current |-> 0, had_error |-> FALSE, reports |-> <<>>,
   trace |-> <<>>]

\* success as it would be if had_error were not looked at
success_always(ps) == TRUE

\* Parser::success
success(ps) == ~ps.had_error

\* Parser::peek and Parser::previous: tokens.get(index).unwrap(); outside the
\* sequence the unwrap panics, which the token "OutOfRange" stands for
peek(ps) ==
  IF ps.current + 1 \in DOMAIN ps.tokens THEN ps.tokens[ps.current + 1]
  ELSE Token("OutOfRange", "", ps.current + 1)
previous(ps) ==
  IF ps.current \in DOMAIN ps.tokens THEN ps.tokens[ps.current]
  ELSE Token("OutOfRange", "", ps.current)
\* Parser::is_at_end; after the panic nothing more is parsed
is_at_end(ps) == peek(ps).type \in {"Eof", "OutOfRange"}
check(ps, t_type) == IF is_at_end(ps) THEN FALSE ELSE peek(ps).type = t_type
\* an advance without the test of line 585
advance_unchecked(ps) == [ps EXCEPT !.current = @ + 1]
advance(ps) == IF ~is_at_end(ps) THEN [ps EXCEPT !.current = @ + 1] ELSE ps

\* Parser::is_match: the answer; when it is TRUE the parser has advanced
is_match(ps, types) == \E t \in types : check(ps, t)

\* SaturdayResult::parse_error prints the error
parse_error(ps, token, message) ==
  [ps EXCEPT !.reports = Append(@, [pos |-> token.pos, msg |-> message])]

\* Parser::error
error(ps, token, message) ==
  [parse_error(ps, token, message) EXCEPT !.had_error = TRUE]

ParsedOk(v, ps) == [r |-> Ok, v |-> v, ps |-> ps]
ParsedErr(r, ps) == [r |-> r, v |-> NoneNode, ps |-> ps]

\* the `?` of the parsing functions
TryParse(x, rest) == IF x.r.k # "Ok" THEN ParsedErr(x.r, x.ps) ELSE rest

\* Parser::consume
consume(ps, t_token, message) ==
  IF check(ps, t_token) THEN ParsedOk(peek(ps), advance(ps))
  ELSE ParsedErr(ParseError(peek(ps), message), error(ps, peek(ps), message))

\* a Vec after push(item?)
Pushed(x, item) ==
  IF item.r.k # "Ok" THEN ParsedErr(item.r, item.ps)
  ELSE ParsedOk(Append(x.v, item.v), item.ps)

\* history: one iteration of a loop took the parser from x to y
Iterated(x, y) ==
  [y EXCEPT !.ps.trace = Append(@, [ev |-> "iteration", pos |-> x.ps.current,
                                    k |-> y.r.k, to |-> y.ps.current])]

\* Parser::synchronize: tokens are skipped up to a statement boundary
synchronize(ps) ==
  LET \* the loop of Parser::synchronize (lines 541-562) is left at the end, after
      \* a ';' and before a keyword that starts a statement
      Left(at) ==
        \/ is_at_end(at)
        \/ previous(at).type = "SemiColon"
        \/ peek(at).type \in {"Class", "Fun", "Var", "Def", "For", "If", "While",
                              "Print", "Return"}
      \* one iteration: line 561
      Iteration(at) ==
        Iterated(ParsedOk(NoneNode, at), ParsedOk(NoneNode, advance(at))).ps
      \* at most k iterations: the first half of them, and from the state y
      \* they leave, the others
      RECURSIVE synchronize_loop(_, _)
      synchronize_loop(at, k) ==
        IF Left(at) \/ k = 0 THEN at
        ELSE IF k = 1 THEN Iteration(at)
        ELSE CHOOSE z \in {synchronize_loop(y, k - (k \div 2)) :
                             y \in {synchronize_loop(at, k \div 2)}} : TRUE
  IN
    LET synchronized == CHOOSE y \in {synchronize_loop(advance(ps), Len(ps.tokens))} : TRUE
    IN [synchronized EXCEPT
          !.trace = Append(@, [ev |-> "synchronize", pos |-> ps.current,
                               k |-> "", to |-> synchronized.current])]

\* a call self.method() of one parsing function by another
RECURSIVE self(_, _)

\* Parser::expression
expression(ps) == self("assignment", ps)

\* a binary or logical node around an operator and its right operand, or the
\* Err of the right operand
Operation(kind, left, operator, right) ==
  IF right.r.k # "Ok" THEN right
  ELSE ParsedOk([kind |-> kind, left |-> left.v, operator |-> operator,
                 right |-> right.v], right.ps)

\* Parser::primary
primary(ps) ==
  CASE is_match(ps, {"False"}) -> ParsedOk(LiteralExpr(Bool(FALSE)), advance(ps))
    [] is_match(ps, {"True"}) -> ParsedOk(LiteralExpr(Bool(TRUE)), advance(ps))
    [] is_match(ps, {"Nil"}) -> ParsedOk(LiteralExpr(Nil), advance(ps))
    [] is_match(ps, {"Number", "String"}) ->
         ParsedOk(LiteralExpr(peek(ps).literal), advance(ps))
    [] is_match(ps, {"Identifier"}) -> ParsedOk(VariableExpr(peek(ps)), advance(ps))
    [] is_match(ps, {"LeftParen"}) ->
         LET expr == self("expression", advance(ps))
             paren == consume(expr.ps, "RightParen", "Expect ')' after expression")
         IN TryParse(expr, TryParse(paren, ParsedOk(GroupingExpr(expr.v), paren.ps)))
    [] OTHER -> ParsedErr(ParseError(peek(ps), "Expect expression."),
                          parse_error(ps, peek(ps), "Expect expression."))

\* Parser::finish_call
finish_call(callee, ps) ==
  LET \* the argument loop of finish_call (lines 469-477); x holds the arguments
      \* so far.  The loop is left when x is an Err or no comma follows
      Left(x) == x.r.k # "Ok" \/ ~is_match(x.ps, {"Comma"})
      \* one iteration: the comma is consumed, then lines 470-476
      Iteration(x) ==
        IF Len(x.v) >= MaxArguments /\ ~x.ps.had_error
          THEN ParsedOk(x.v, error(advance(x.ps), peek(advance(x.ps)),
                                   "Can't have more than 255 arguments."))
          ELSE Pushed(x, self("expression", advance(x.ps)))
      \* at most k iterations: the first half of them, and from the state y
      \* they leave, the others
      RECURSIVE arguments_loop(_, _)
      arguments_loop(x, k) ==
        IF Left(x) \/ k = 0 THEN x
        ELSE IF k = 1 THEN Iteration(x)
        ELSE CHOOSE z \in {arguments_loop(y, k - (k \div 2)) : y \in {arguments_loop(x, k \div 2)}} : TRUE
  IN
    LET arguments == IF ~check(ps, "RightParen")
                       THEN arguments_loop(Pushed(ParsedOk(<<>>, ps), self("expression", ps)),
                                           Len(ps.tokens))
                       ELSE ParsedOk(<<>>, ps)
        paren == consume(arguments.ps, "RightParen", "Expect ')' after arguments.")
    IN TryParse(arguments,
         TryParse(paren, ParsedOk(CallExpr(callee, paren.v, arguments.v), paren.ps)))

\* Parser::call
Parser_call(ps) ==
  LET \* a property access after '.'
      Property(object, name) ==
        IF name.r.k # "Ok" THEN name ELSE ParsedOk(GetExpr(object, name.v), name.ps)
      \* the loop of Parser::call (lines 448-460)
      RECURSIVE call_loop(_)
      call_loop(expr) ==
        IF expr.r.k # "Ok" THEN expr
        ELSE IF is_match(expr.ps, {"LeftParen"})
          THEN call_loop(finish_call(expr.v, advance(expr.ps)))
        ELSE IF is_match(expr.ps, {"Dot"})
          THEN call_loop(Property(expr.v, consume(advance(expr.ps), "Identifier",
                                                  "Expect property name after '.'.")))
        ELSE expr
  IN
    call_loop(self("primary", ps))

\* Parser::unary
unary(ps) ==
  LET \* a unary node around its operand, or the Err of the operand
      Unary(operator, right) ==
        IF right.r.k # "Ok" THEN right
        ELSE ParsedOk(UnaryExpr(operator, right.v), right.ps)
  IN
    IF is_match(ps, {"Bang", "Minus"}) THEN Unary(peek(ps), self("unary", advance(ps)))
    ELSE self("call", ps)

\* Parser::factor
factor(ps) ==
  LET RECURSIVE factor_loop(_)
      factor_loop(expr) ==
        IF expr.r.k # "Ok" \/ ~is_match(expr.ps, {"Slash", "Star"}) THEN expr
        ELSE factor_loop(Operation("Binary", expr, peek(expr.ps), self("unary", advance(expr.ps))))
  IN
    factor_loop(self("unary", ps))

\* Parser::term
term(ps) ==
  LET RECURSIVE term_loop(_)
      term_loop(expr) ==
        IF expr.r.k # "Ok" \/ ~is_match(expr.ps, {"Minus", "Plus"}) THEN expr
        ELSE term_loop(Operation("Binary", expr, peek(expr.ps), self("factor", advance(expr.ps))))
  IN
    term_loop(self("factor", ps))

\* Parser::comparison
comparison(ps) ==
  LET RECURSIVE comparison_loop(_)
      comparison_loop(expr) ==
        IF expr.r.k # "Ok"
           \/ ~is_match(expr.ps, {"Greater", "GreaterEqual", "Less", "LessEqual"}) THEN expr
        ELSE comparison_loop(Operation("Binary", expr, peek(expr.ps), self("term", advance(expr.ps))))
  IN
    comparison_loop(self("term", ps))

\* Parser::equality
equality(ps) ==
  LET RECURSIVE equality_loop(_)
      equality_loop(expr) ==
        IF expr.r.k # "Ok" \/ ~is_match(expr.ps, {"BangEqual", "Equal"}) THEN expr
        ELSE equality_loop(Operation("Binary", expr, peek(expr.ps),
                                     self("comparison", advance(expr.ps))))
  IN
    equality_loop(self("comparison", ps))

\* Parser::and
and(ps) ==
  LET RECURSIVE and_loop(_)
      and_loop(expr) ==
        IF expr.r.k # "Ok" \/ ~is_match(expr.ps, {"And"}) THEN expr
        ELSE and_loop(Operation("Logical", expr, peek(expr.ps), self("equality", advance(expr.ps))))
  IN
    and_loop(self("equality", ps))

\* Parser::or
or(ps) ==
  LET RECURSIVE or_loop(_)
      or_loop(expr) ==
        IF expr.r.k # "Ok" \/ ~is_match(expr.ps, {"Or"}) THEN expr
        ELSE or_loop(Operation("Logical", expr, peek(expr.ps), self("and", advance(expr.ps))))
  IN
    or_loop(self("and", ps))

\* lines 323-324: the error is reported and the left operand returned
\* as it would be if the error were returned
InvalidTarget_returns_err(expr, equals, ps) ==
  ParsedErr(ParseError(equals, "Invalid assignment target."),
            [error(ps, equals, "Invalid assignment target.") EXCEPT
               !.trace = Append(@, [ev |-> "invalid target", pos |-> equals.pos,
                                    k |-> "ParseError", to |-> ps.current])])

\* lines 323 and 326: the error is reported, the left operand is the result
InvalidTarget(expr, equals, ps) ==
  ParsedOk(expr,
           [error(ps, equals, "Invalid assignment target.") EXCEPT
              !.trace = Append(@, [ev |-> "invalid target", pos |-> equals.pos,
                                   k |-> "Ok", to |-> ps.current])])

\* Parser::assignment
assignment(ps) ==
  LET \* lines 309-324: what is built around the target expr and the value
      Target(expr, equals, value) ==
        IF value.r.k # "Ok" THEN value
        ELSE IF expr.kind = "Variable" THEN ParsedOk(AssignExpr(expr.name, value.v), value.ps)
        ELSE IF expr.kind = "Get"
          THEN ParsedOk(SetExpr(expr.object, expr.name, value.v), value.ps)
        ELSE InvalidTarget(expr, equals, value.ps)
      \* lines 307-326 of Parser::assignment, after the left operand
      Assigned(expr) ==
        IF expr.r.k # "Ok" \/ ~is_match(expr.ps, {"Assign"}) THEN expr
        ELSE Target(expr.v, peek(expr.ps), self("assignment", advance(expr.ps)))
  IN
    Assigned(self("or", ps))

\* Parser::expression_statement
expression_statement(ps) ==
  LET expr == self("expression", ps)
      semi == consume(expr.ps, "SemiColon", "Expect ';' after value.")
  IN TryParse(expr, TryParse(semi, ParsedOk(ExpressionStmt(expr.v), semi.ps)))

\* Parser::print_statement
print_statement(ps) ==
  LET value == self("expression", ps)
      semi == consume(value.ps, "SemiColon", "Expect ';' after value.")
  IN TryParse(value, TryParse(semi, ParsedOk(PrintStmt(value.v), semi.ps)))

\* Parser::return_statement
return_statement(ps) ==
  LET value == IF check(ps, "SemiColon") THEN ParsedOk(NoneNode, ps) ELSE self("expression", ps)
      semi == consume(value.ps, "SemiColon", "Expect ';' after return value.")
  IN TryParse(value,
       TryParse(semi, ParsedOk(ReturnStmt(previous(ps), value.v), semi.ps)))

\* Parser::def_declaration
def_declaration(ps) ==
  LET name == consume(ps, "Identifier", "Expect variable name.")
      initializer == IF is_match(name.ps, {"Assign"})
                       THEN self("expression", advance(name.ps))
                       ELSE ParsedOk(NoneNode, name.ps)
      semi == consume(initializer.ps, "SemiColon", "Expect ';' after variable declaration")
  IN TryParse(name,
       TryParse(initializer,
         TryParse(semi, ParsedOk(DefStmt(name.v, initializer.v), semi.ps))))

\* a parser that takes any statement as a branch or a loop body
Braced_or_not(condition, message) ==
  IF condition.r.k # "Ok" THEN condition ELSE self("statement", condition.ps)

\* lines 80-88 of while_statement and 208-215 of if_statement: the statement
\* after a condition must begin with '{'
Braced(condition, message) ==
  IF condition.r.k # "Ok" THEN condition
  ELSE IF peek(condition.ps).type # "LeftBrace"
    THEN ParsedErr(ParseError(peek(condition.ps), message),
                   parse_error(condition.ps, peek(condition.ps), message))
  ELSE self("statement", condition.ps)

\* Parser::while_statement
while_statement(ps) ==
  LET While(condition, body) ==
        IF body.r.k # "Ok" THEN body ELSE ParsedOk(WhileStmt(condition.v, body.v), body.ps)
  IN
    LET condition == self("expression", ps)
    IN While(condition, Braced(condition, "while must wrap by '{}'."))

\* Parser::if_statement
if_statement(ps) ==
  LET \* lines 216-227: the else branch
      Else(then_branch) ==
        IF then_branch.r.k # "Ok" THEN then_branch
        ELSE IF is_match(then_branch.ps, {"Else"})
          THEN Braced(ParsedOk(NoneNode, advance(then_branch.ps)),
                      "else branch must wrap by '{}'.")
        ELSE ParsedOk(NoneNode, then_branch.ps)
      If(condition, then_branch, else_branch) ==
        IF else_branch.r.k # "Ok" THEN else_branch
        ELSE ParsedOk(IfStmt(condition.v, then_branch.v, else_branch.v), else_branch.ps)
  IN
    LET condition == self("expression", ps)
        then_branch == Braced(condition, "then branch must wrap by '{}'.")
    IN If(condition, then_branch, Else(then_branch))

\* Parser::for_statement
for_statement(ps) ==
  LET \* the clauses of a for statement: each is parsed after the one before it,
      \* x.v holds the clauses parsed so far
      Clause(x, name, item) ==
        IF item.r.k # "Ok" THEN ParsedErr(item.r, item.ps)
        ELSE ParsedOk([x.v EXCEPT ![name] = item.v], item.ps)
      \* lines 147-153
      for_initializer(start) ==
        Clause(ParsedOk([initializer |-> NoneNode, condition |-> NoneNode,
                         increment |-> NoneNode, body |-> NoneNode], start),
               "initializer",
               IF is_match(start, {"SemiColon"}) THEN ParsedOk(NoneNode, advance(start))
               ELSE IF is_match(start, {"Def"}) THEN self("def_declaration", advance(start))
               ELSE self("expression_statement", start))
      \* lines 155-160
      for_condition(x) ==
        IF x.r.k # "Ok" THEN x
        ELSE Clause(x, "condition",
                    LET condition == IF check(x.ps, "SemiColon")
                                       THEN ParsedOk(NoneNode, x.ps) ELSE self("expression", x.ps)
                        semi == consume(condition.ps, "SemiColon",
                                        "Expect ';' after loop condition.")
                    IN TryParse(condition, TryParse(semi, ParsedOk(condition.v, semi.ps))))
      \* lines 162-166
      for_increment(x) ==
        IF x.r.k # "Ok" THEN x
        ELSE Clause(x, "increment",
                    IF check(x.ps, "LeftBrace") THEN ParsedOk(NoneNode, x.ps)
                    ELSE self("expression", x.ps))
      \* line 168
      for_body(x) == IF x.r.k # "Ok" THEN x ELSE Clause(x, "body", self("statement", x.ps))
      \* lines 170-198: the for loop as a while loop
      Desugared(for) ==
        LET body == IF for.increment.kind # "None"
                      THEN BlockStmt(<<for.body, ExpressionStmt(for.increment)>>)
                      ELSE for.body
            loop == WhileStmt(IF for.condition.kind # "None" THEN for.condition
                              ELSE LiteralExpr(Bool(TRUE)), body)
        IN IF for.initializer.kind # "None" THEN BlockStmt(<<for.initializer, loop>>)
           ELSE loop
      For(x) == IF x.r.k # "Ok" THEN x ELSE ParsedOk(Desugared(x.v), x.ps)
  IN
    For(for_body(for_increment(for_condition(for_initializer(ps)))))

\* Parser::block
block(ps) ==
  LET \* the loop of Parser::block (lines 296-298); x holds the statements so far
      RECURSIVE block_loop(_)
      block_loop(x) ==
        IF x.r.k # "Ok" \/ check(x.ps, "RightBrace") \/ is_at_end(x.ps) THEN x
        ELSE block_loop(Iterated(x, Pushed(x, self("declaration", x.ps))))
      \* lines 300-301
      BlockEnd(statements) ==
        LET brace == consume(statements.ps, "RightBrace", "Expect '}' after block.")
        IN TryParse(statements, TryParse(brace, ParsedOk(statements.v, brace.ps)))
  IN
    BlockEnd(block_loop(ParsedOk(<<>>, ps)))

\* Parser::statement
statement(ps) ==
  LET \* lines 136-140
      Block(statements) ==
        IF statements.r.k # "Ok" THEN statements
        ELSE ParsedOk(BlockStmt(statements.v), statements.ps)
      \* lines 111-115
      break_statement(after) ==
        LET semi == consume(after, "SemiColon", "expect ';' after break statement.")
        IN TryParse(semi, ParsedOk(BreakStmt(previous(after)), semi.ps))
  IN
    CASE is_match(ps, {"Break"}) -> break_statement(advance(ps))
      [] is_match(ps, {"For"}) -> self("for_statement", advance(ps))
      [] is_match(ps, {"If"}) -> self("if_statement", advance(ps))
      [] is_match(ps, {"Print"}) -> self("print_statement", advance(ps))
      [] is_match(ps, {"Return"}) -> self("return_statement", advance(ps))
      [] is_match(ps, {"While"}) -> self("while_statement", advance(ps))
      [] is_match(ps, {"LeftBrace"}) -> Block(self("block", advance(ps)))
      [] OTHER -> self("expression_statement", ps)

\* Parser::function
function(ps, kind) ==
  LET \* the parameter loop of Parser::function (lines 269-276); x holds the
      \* parameters so far
      \* The loop is left when x is an Err or no comma follows
      Left(x) == x.r.k # "Ok" \/ ~is_match(x.ps, {"Comma"})
      \* one iteration: the comma is consumed, then lines 270-275
      Iteration(x) ==
        Pushed(ParsedOk(x.v, IF Len(x.v) >= MaxArguments /\ ~x.ps.had_error
                               THEN error(advance(x.ps), peek(advance(x.ps)),
                                          "Can't have more than 255 parameters.")
                               ELSE advance(x.ps)),
               consume(IF Len(x.v) >= MaxArguments /\ ~x.ps.had_error
                         THEN error(advance(x.ps), peek(advance(x.ps)),
                                    "Can't have more than 255 parameters.")
                         ELSE advance(x.ps),
                       "Identifier", "Expect parameter name"))
      \* at most k iterations: the first half of them, and from the state y
      \* they leave, the others
      RECURSIVE params_loop(_, _)
      params_loop(x, k) ==
        IF Left(x) \/ k = 0 THEN x
        ELSE IF k = 1 THEN Iteration(x)
        ELSE CHOOSE z \in {params_loop(y, k - (k \div 2)) : y \in {params_loop(x, k \div 2)}} : TRUE
      \* lines 267-279: the parameter list up to ')'
      Parameters(ps_) ==
        LET params == IF ~check(ps_, "RightParen")
                        THEN params_loop(Pushed(ParsedOk(<<>>, ps_),
                                                consume(ps_, "Identifier", "Expect parameter name")),
                                         Len(ps_.tokens))
                        ELSE ParsedOk(<<>>, ps_)
            paren == consume(params.ps, "RightParen", "Expect ')' after parameters.")
        IN TryParse(params, TryParse(paren, ParsedOk(params.v, paren.ps)))
      \* lines 281-291: the body
      Function(name, params, body) ==
        IF body.r.k # "Ok" THEN body
        ELSE ParsedOk(FunctionStmt(name, params, body.v), body.ps)
  IN
    LET name == consume(ps, "Identifier", "Expect " \o kind \o " name")
        paren == consume(name.ps, "LeftParen", "Expect '(' after " \o kind \o " name.")
        params == Parameters(paren.ps)
        brace == consume(params.ps, "LeftBrace", "Expect '{' before " \o kind \o " body")
    IN TryParse(name, TryParse(paren, TryParse(params, TryParse(brace,
         Function(name.v, params.v, self("block", brace.ps))))))

\* Parser::class_declaration
class_declaration(ps) ==
  LET \* the loop of Parser::class_declaration (lines 100-102)
      RECURSIVE methods_loop(_)
      methods_loop(x) ==
        IF x.r.k # "Ok" \/ check(x.ps, "RightBrace") \/ is_at_end(x.ps) THEN x
        ELSE methods_loop(Iterated(x, Pushed(x, self("method", x.ps))))
  IN
    LET name == consume(ps, "Identifier", "Expect class name.")
        brace == consume(name.ps, "LeftBrace", "Expect '{' before class body.")
        methods == methods_loop(ParsedOk(<<>>, brace.ps))
        end == consume(methods.ps, "RightBrace", "Expect '}' after class body.")
    IN TryParse(name, TryParse(brace, TryParse(methods, TryParse(end,
         ParsedOk(ClassStmt(name.v, methods.v), end.ps)))))

\* Parser::declaration
declaration(ps) ==
  LET \* lines 55-59: after an Err the parser synchronizes, the Err is the result
      Synchronized(result) ==
        IF result.r.k # "Ok" THEN ParsedErr(result.r, synchronize(result.ps)) ELSE result
  IN
    Synchronized(
      CASE is_match(ps, {"Class"}) -> self("class_declaration", advance(ps))
        [] is_match(ps, {"Fun"}) -> self("function", advance(ps))
        [] is_match(ps, {"Def"}) -> self("def_declaration", advance(ps))
        [] OTHER -> self("statement", ps))

\* the parsing functions by name
self(method, ps) ==
  CASE method = "declaration" -> declaration(ps)
    [] method = "class_declaration" -> class_declaration(ps)
    [] method = "function" -> function(ps, "function")
    [] method = "method" -> function(ps, "method")
    [] method = "def_declaration" -> def_declaration(ps)
    [] method = "statement" -> statement(ps)
    [] method = "for_statement" -> for_statement(ps)
    [] method = "if_statement" -> if_statement(ps)
    [] method = "print_statement" -> print_statement(ps)
    [] method = "return_statement" -> return_statement(ps)
    [] method = "while_statement" -> while_statement(ps)
    [] method = "block" -> block(ps)
    [] method = "expression_statement" -> expression_statement(ps)
    [] method = "expression" -> expression(ps)
    [] method = "assignment" -> assignment(ps)
    [] method = "or" -> or(ps)
    [] method = "and" -> and(ps)
    [] method = "equality" -> equality(ps)
    [] method = "comparison" -> comparison(ps)
    [] method = "term" -> term(ps)
    [] method = "factor" -> factor(ps)
    [] method = "unary" -> unary(ps)
    [] method = "call" -> Parser_call(ps)
    [] method = "primary" -> primary(ps)

\* Parser::parse
parse(ps) ==
  LET \* the loop of Parser::parse (lines 37-39); x holds the statements so far
      RECURSIVE parse_loop(_)
      parse_loop(x) ==
        IF x.r.k # "Ok" \/ is_at_end(x.ps) THEN x
        ELSE parse_loop(Iterated(x, Pushed(x, self("declaration", x.ps))))
  IN
    parse_loop(ParsedOk(<<>>, ps))

(***************************************************************************)
(* The Resolver (resolver.rs).  rs is the resolver's state:                *)
(*   scopes   the stack of scopes, each a map from a name to its "defined" *)
(*            flag; the innermost scope is the last                        *)
(*   locals   the side-table Interpreter::resolve fills: the hop count of  *)
(*            a node, keyed by the node (the index of its name token)      *)
(* and one history field that the code does not have:                      *)
(*   trace    an event per Def, Variable and Assign node visited, with the *)
(*            scope stack at that moment                                   *)
(* A resolving function returns [r, rs].                                   *)
(***************************************************************************)
NoScope == [n \in {} |-> FALSE]
NoLocals == [n \in {} |-> 0]

Resolver == [scopes |-> <<>>, locals |-> NoLocals, trace |-> <<>>]

begin_scope(rs) == [rs EXCEPT !.scopes = Append(@, NoScope)]
end_scope(rs) == [rs EXCEPT !.scopes = SubSeq(@, 1, Len(@) - 1)]

\* Resolver::declare
declare(rs, name) ==
  IF rs.scopes = <<>> THEN rs
  ELSE [rs EXCEPT !.scopes[Len(rs.scopes)] = (name.lexeme :> FALSE) @@ @]

\* Resolver::define
Resolver_define(rs, name) ==
  IF rs.scopes = <<>> THEN rs
  ELSE [rs EXCEPT !.scopes[Len(rs.scopes)] = (name.lexeme :> TRUE) @@ @]

\* Interpreter::resolve: the hop count of the node is put in the side-table
Interpreter_resolve(rs, expr, depth) ==
  [rs EXCEPT !.locals = (expr.name.pos :> depth) @@ @]

\* Resolver::resolve_local: scope counts the scopes from the innermost one
resolve_local(rs, expr, name) ==
  LET RECURSIVE resolve_local_loop(_, _, _, _)
      resolve_local_loop(rs_, expr_, name_, scope) ==
        IF scope >= Len(rs_.scopes) THEN rs_
        ELSE IF name_.lexeme \in DOMAIN rs_.scopes[Len(rs_.scopes) - scope]
          THEN Interpreter_resolve(rs_, expr_, scope)
        ELSE resolve_local_loop(rs_, expr_, name_, scope + 1)
  IN
    resolve_local_loop(rs, expr, name, 0)

\* history: the node visited, the scope stack it was visited with and how
\* the visit ended
Visited(x, expr, name, scopes) ==
  [r |-> x.r,
   rs |-> [x.rs EXCEPT !.trace = Append(@, [kind |-> expr.kind, node |-> name.pos,
                                              name |-> name.lexeme, scopes |-> scopes,
                                              initializer |-> NoneNode,
                                              k |-> x.r.k, msg |-> x.r.msg])]]

\* the `?` of the resolving functions
TryResolve(x, rest) == IF x.r.k # "Ok" THEN x ELSE rest

RECURSIVE resolve_stmt(_, _), resolve_expr(_, _)

\* Resolver::resolve
resolve(rs, statements) ==
  LET RECURSIVE resolve_loop(_, _, _)
      resolve_loop(rs_, statements_, i) ==
        IF i > Len(statements_) THEN [r |-> Ok, rs |-> rs_]
        ELSE LET x == resolve_stmt(rs_, statements_[i])
             IN TryResolve(x, resolve_loop(x.rs, statements_, i + 1))
  IN
    resolve_loop(rs, statements, 1)

\* Resolver::resolve_function
resolve_function(rs, function_stmt) ==
  LET RECURSIVE declare_params(_, _, _)
      declare_params(rs_, params, i) ==
        IF i > Len(params) THEN rs_
        ELSE declare_params(Resolver_define(declare(rs_, params[i]), params[i]), params, i + 1)
      \* lines 99-100: the Result of resolving the body is dropped, the scope ended;
      \* only a panic unwinds
      Discard(x) == IF x.r.k = "Panic" THEN x ELSE [r |-> Ok, rs |-> end_scope(x.rs)]
  IN
    Discard(resolve(declare_params(begin_scope(rs), function_stmt.params, 1),
                    function_stmt.statements))

\* Resolver::visit_block_stmt
Resolver_visit_block_stmt(rs, stmt) ==
  LET x == resolve(begin_scope(rs), stmt.statements)
  IN TryResolve(x, [r |-> Ok, rs |-> end_scope(x.rs)])

\* Resolver::visit_break_stmt
Resolver_visit_break_stmt(rs, stmt) == [r |-> Panic("not yet implemented"), rs |-> rs]

\* Resolver::visit_function_stmt
Resolver_visit_function_stmt(rs, stmt) ==
  resolve_function(Resolver_define(declare(rs, stmt.name), stmt.name), stmt)

\* Resolver::visit_if_stmt
Resolver_visit_if_stmt(rs, stmt) ==
  LET condition == resolve_expr(rs, stmt.condition)
      then_branch == resolve_stmt(condition.rs, stmt.then_branch)
  IN TryResolve(condition,
       TryResolve(then_branch,
         IF stmt.else_branch.kind # "None"
           THEN resolve_stmt(then_branch.rs, stmt.else_branch)
           ELSE [r |-> Ok, rs |-> then_branch.rs]))

\* Resolver::visit_return_stmt
Resolver_visit_return_stmt(rs, stmt) ==
  IF stmt.value.kind # "None" THEN resolve_expr(rs, stmt.value)
  ELSE [r |-> Ok, rs |-> rs]

\* Resolver::visit_def_stmt
Resolver_visit_def_stmt(rs, stmt) ==
  LET \* history of visit_def_stmt: the statement and the scope stack before it
      VisitedDef(x, stmt_, scopes) ==
        [r |-> x.r,
         rs |-> [x.rs EXCEPT !.trace = Append(@, [kind |-> "Def", node |-> stmt_.name.pos,
                                                    name |-> stmt_.name.lexeme,
                                                    scopes |-> scopes,
                                                    initializer |-> stmt_.initializer,
                                                    k |-> x.r.k, msg |-> x.r.msg])]]
      \* lines 157-163
      Define(x, name) ==
        IF x.r.k # "Ok" THEN x ELSE [r |-> Ok, rs |-> Resolver_define(x.rs, name)]
  IN
    VisitedDef(Define(IF stmt.initializer.kind # "None"
                        THEN resolve_expr(declare(rs, stmt.name), stmt.initializer)
                        ELSE [r |-> Ok, rs |-> declare(rs, stmt.name)],
                      stmt.name),
               stmt, rs.scopes)

\* Resolver::visit_while_stmt
Resolver_visit_while_stmt(rs, stmt) ==
  LET condition == resolve_expr(rs, stmt.condition)
  IN TryResolve(condition, resolve_stmt(condition.rs, stmt.body))

\* Resolver::visit_assign_expr
Resolver_visit_assign_expr(rs, expr) ==
  LET \* lines 175-177
      Resolved(x, expr_) ==
        IF x.r.k # "Ok" THEN x ELSE [r |-> Ok, rs |-> resolve_local(x.rs, expr_, expr_.name)]
  IN
    Visited(Resolved(resolve_expr(rs, expr.value), expr), expr, expr.name, rs.scopes)

\* Resolver::visit_binary_expr and Resolver::visit_logical_expr
Resolver_visit_binary_expr(rs, expr) ==
  LET left == resolve_expr(rs, expr.left)
  IN TryResolve(left, resolve_expr(left.rs, expr.right))

\* Resolver::visit_call_expr
Resolver_visit_call_expr(rs, expr) ==
  LET \* the argument loop of visit_call_expr (lines 188-190)
      RECURSIVE resolve_arguments(_, _, _)
      resolve_arguments(rs_, arguments, i) ==
        IF i > Len(arguments) THEN [r |-> Ok, rs |-> rs_]
        ELSE LET x == resolve_expr(rs_, arguments[i])
             IN TryResolve(x, resolve_arguments(x.rs, arguments, i + 1))
  IN
    LET callee == resolve_expr(rs, expr.callee)
    IN TryResolve(callee, resolve_arguments(callee.rs, expr.arguments, 1))

\* Resolver::visit_variable_expr
Resolver_visit_variable_expr(rs, expr) ==
  LET \* lines 220-230: get(name) on the innermost scope; unwrap panics on None
      Innermost(rs_, name) ==
        IF name.lexeme \in DOMAIN rs_.scopes[Len(rs_.scopes)]
          THEN [some |-> TRUE, flag |-> rs_.scopes[Len(rs_.scopes)][name.lexeme]]
          ELSE [some |-> FALSE, flag |-> FALSE]
  IN
    Visited(IF rs.scopes # <<>> /\ ~Innermost(rs, expr.name).some
              THEN [r |-> Panic("called Option::unwrap() on a None value"), rs |-> rs]
            ELSE IF rs.scopes # <<>> /\ ~Innermost(rs, expr.name).flag
              THEN [r |-> RuntimeError(expr.name,
                                       "Can't read local variable in its own initializer."),
                    rs |-> rs]
            ELSE [r |-> Ok, rs |-> resolve_local(rs, expr, expr.name)],
            expr, expr.name, rs.scopes)

\* Resolver::resolve_expr: Expr::accept dispatches on the node kind
resolve_expr(rs, expr) ==
  CASE expr.kind = "Assign" -> Resolver_visit_assign_expr(rs, expr)
    [] expr.kind = "Binary" -> Resolver_visit_binary_expr(rs, expr)
    [] expr.kind = "Call" -> Resolver_visit_call_expr(rs, expr)
    [] expr.kind = "Grouping" -> resolve_expr(rs, expr.expression)
    [] expr.kind = "Literal" -> [r |-> Ok, rs |-> rs]
    [] expr.kind = "Logical" -> Resolver_visit_binary_expr(rs, expr)
    [] expr.kind = "Unary" -> resolve_expr(rs, expr.right)
    [] expr.kind = "Variable" -> Resolver_visit_variable_expr(rs, expr)
    [] OTHER -> [r |-> Panic("no visitor"), rs |-> rs]

\* Resolver::resolve_stmt: Stmt::accept dispatches on the node kind
resolve_stmt(rs, stmt) ==
  CASE stmt.kind = "Block" -> Resolver_visit_block_stmt(rs, stmt)
    [] stmt.kind = "Break" -> Resolver_visit_break_stmt(rs, stmt)
    [] stmt.kind = "Expression" -> resolve_expr(rs, stmt.expression)
    [] stmt.kind = "Function" -> Resolver_visit_function_stmt(rs, stmt)
    [] stmt.kind = "If" -> Resolver_visit_if_stmt(rs, stmt)
    [] stmt.kind = "Print" -> resolve_expr(rs, stmt.expression)
    [] stmt.kind = "Return" -> Resolver_visit_return_stmt(rs, stmt)
    [] stmt.kind = "Def" -> Resolver_visit_def_stmt(rs, stmt)
    [] stmt.kind = "While" -> Resolver_visit_while_stmt(rs, stmt)
    [] OTHER -> [r |-> Panic("no visitor"), rs |-> rs]

(***************************************************************************)
(* Environment: a map from names to Objects and an optional enclosing      *)
(* Environment.  Environments live in a heap (a sequence); an Rc to an     *)
(* Environment is its index, 0 is "no enclosing".                          *)
(***************************************************************************)
NoValues == [n \in {} |-> Nil]
Environment == [values |-> NoValues, enclosing |-> 0]
new_with_enclosing(enclosing) == [values |-> NoValues, enclosing |-> enclosing]

define(heap, e, name, value) == [heap EXCEPT ![e].values = (name :> value) @@ @]

RECURSIVE get(_, _, _)
get(heap, e, name) ==
  IF name.lexeme \in DOMAIN heap[e].values
    THEN [r |-> Ok, v |-> heap[e].values[name.lexeme]]
    ELSE IF heap[e].enclosing # 0
      THEN get(heap, heap[e].enclosing, name)
      ELSE [r |-> RuntimeError(name, "Undefined variable"), v |-> Nil]

RECURSIVE assign(_, _, _, _)
assign(heap, e, name, value) ==
  IF name.lexeme \in DOMAIN heap[e].values
    THEN [r |-> Ok, heap |-> [heap EXCEPT ![e].values[name.lexeme] = value]]
    ELSE IF heap[e].enclosing # 0
      THEN assign(heap, heap[e].enclosing, name, value)
      ELSE [r |-> RuntimeError(name, "Undefined variable"), heap |-> heap]

(***************************************************************************)
(* The Interpreter.  st is the interpreter's state:                        *)
(*   environment  the current-environment slot (an index into heap)        *)
(*   globals      the global Environment                                   *)
(*   heap         the Environments alive                                   *)
(*   funcs        the function objects created (a Func value is an index)  *)
(*   nest         the loop-nesting counter                                 *)
(*   out          the lines printed                                        *)
(* and three history fields that the code does not have:                   *)
(*   loops        the visit_while_stmt activations now on the call stack   *)
(*   nextLoop     the number of activations so far                         *)
(*   trace        one event per block exit, break and while exit           *)
(***************************************************************************)
Event(ev, id, a, b, k, how, n) ==
  [ev |-> ev, id |-> id, a |-> a, b |-> b, k |-> k, how |-> how, n |-> n]

Record(st, e) == [st EXCEPT !.trace = Append(@, e)]

\* Interpreter::is_truthy
is_truthy(object) == ~(object.t = "Nil" \/ (object.t = "Bool" /\ object.b = FALSE))

(***************************************************************************)
(* The `?` of Rust: an Err of the sub-evaluation x is returned at once,     *)
(* otherwise the rest of the function goes on from x.                      *)
(***************************************************************************)
Try(x, rest) == IF x.r.k # "Ok" THEN [r |-> x.r, st |-> x.st] ELSE rest
TryExpr(x, rest) == IF x.r.k # "Ok" THEN [r |-> x.r, v |-> Nil, st |-> x.st] ELSE rest

RECURSIVE execute(_, _, _), evaluate(_, _, _)

\* the end of execute_block as it would be with `?` on the statements: an Err
\* returns before the slot is swapped back
Restore_only_after_ok(result, previous_environment) ==
  IF result.r.k # "Ok" THEN result
  ELSE [r |-> result.r, st |-> [result.st EXCEPT !.environment = previous_environment]]

\* lines 287-288: the previous Environment is swapped back, the result returned
Restore(result, previous_environment) ==
  [r |-> result.r, st |-> [result.st EXCEPT !.environment = previous_environment]]

\* Interpreter::execute_block
execute_block(statements, environment, st, d) ==
  LET \* the iterator of execute_block: stops at the first statement that is not Ok
      RECURSIVE try_for_each(_, _, _, _)
      try_for_each(statements_, i, st_, d_) ==
        IF i > Len(statements_) THEN [r |-> Ok, st |-> st_]
        ELSE LET x == execute(statements_[i], st_, d_)
             IN Try(x, try_for_each(statements_, i + 1, x.st, d_))
      \* line 283: the new Environment is put in the slot
      Install(st_, environment_) ==
        [st_ EXCEPT !.heap = Append(@, environment_), !.environment = Len(st_.heap) + 1]
  IN
    Restore(try_for_each(statements, 1, Install(st, environment), d), st.environment)

\* Interpreter::visit_block_stmt
visit_block_stmt(stmt, st, d) ==
  LET \* history: the slot before a block and after it
      ObserveBlock(x, before) ==
        [r |-> x.r,
         st |-> Record(x.st, Event("block", 0, before, x.st.environment, x.r.k, "", 0))]
  IN
    ObserveBlock(execute_block(stmt.statements, new_with_enclosing(st.environment), st, d),
                 st.environment)

\* Interpreter::visit_break_stmt; the event records nest and the loops really active
visit_break_stmt(stmt, st) ==
  LET r == IF st.nest = 0
             THEN RuntimeError(stmt.token, "break outside of while/for loop")
             ELSE Break
      innermost == IF st.loops = <<>> THEN 0 ELSE Head(st.loops)
  IN [r |-> r,
      st |-> Record(st, Event("break", innermost, st.nest, Len(st.loops), r.k, "", 0))]

\* Interpreter::visit_expression_stmt
visit_expression_stmt(stmt, st, d) ==
  LET x == evaluate(stmt.expression, st, d)
  IN Try(x, [r |-> Ok, st |-> x.st])

\* Interpreter::visit_function_stmt
visit_function_stmt(stmt, st) ==
  LET \* SaturdayFunction::new
      SaturdayFunction(stmt_, closure) ==
        [name |-> stmt_.name.lexeme, params |-> stmt_.params, statements |-> stmt_.statements,
         closure |-> closure, native |-> FALSE, class |-> FALSE]
  IN
    [r |-> Ok,
     st |-> [st EXCEPT !.funcs = Append(@, SaturdayFunction(stmt, st.environment)),
                       !.heap = define(@, st.environment, stmt.name.lexeme,
                                       Func(Len(st.funcs) + 1))]]

\* Interpreter::visit_if_stmt
visit_if_stmt(stmt, st, d) ==
  LET c == evaluate(stmt.condition, st, d)
  IN Try(c, IF is_truthy(c.v) THEN execute(stmt.then_branch, c.st, d)
            ELSE IF stmt.else_branch.kind # "None" THEN execute(stmt.else_branch, c.st, d)
            ELSE [r |-> Ok, st |-> c.st])

\* Interpreter::visit_print_stmt
visit_print_stmt(stmt, st, d) ==
  LET x == evaluate(stmt.expression, st, d)
  IN Try(x, IF x.v.t = "ArithmeticError"
              THEN [r |-> Panic("Should not be trying to print this"), st |-> x.st]
              ELSE [r |-> Ok, st |-> [x.st EXCEPT !.out = Append(@, Display(x.v))]])

\* Interpreter::visit_return_stmt
visit_return_stmt(stmt, st, d) ==
  IF stmt.value.kind # "None"
    THEN LET x == evaluate(stmt.value, st, d)
         IN Try(x, [r |-> ReturnValue(x.v), st |-> x.st])
    ELSE [r |-> ReturnValue(Nil), st |-> st]

\* visit_def_stmt as it would be if the name were defined in globals rather
\* than in the current Environment
visit_def_stmt_in_globals(stmt, st, d) ==
  LET x == IF stmt.initializer.kind # "None"
             THEN evaluate(stmt.initializer, st, d)
             ELSE [r |-> Ok, v |-> Nil, st |-> st]
  IN Try(x, [r |-> Ok,
             st |-> [x.st EXCEPT !.heap = define(@, x.st.globals, stmt.name.lexeme, x.v)]])

\* Interpreter::visit_def_stmt
visit_def_stmt(stmt, st, d) ==
  LET x == IF stmt.initializer.kind # "None"
             THEN evaluate(stmt.initializer, st, d)
             ELSE [r |-> Ok, v |-> Nil, st |-> st]
  IN Try(x, [r |-> Ok,
             st |-> [x.st EXCEPT !.heap = define(@, x.st.environment,
                                                 stmt.name.lexeme, x.v)]])

\* the match as it would be without the Err(Break) arm: Break is passed on like
\* any other Err
OnBody_passes_break(x, n, rest) ==
  IF x.r.k # "Ok" THEN [r |-> x.r, st |-> x.st, how |-> "body", n |-> n + 1]
  ELSE rest

\* lines 97-101: the match on the result x of the body in iteration n + 1
OnBody(x, n, rest) ==
  IF x.r.k = "Break" THEN [r |-> Ok, st |-> x.st, how |-> "break", n |-> n + 1]
  ELSE IF x.r.k # "Ok" THEN [r |-> x.r, st |-> x.st, how |-> "body", n |-> n + 1]
  ELSE rest

\* Interpreter::visit_while_stmt
visit_while_stmt(stmt, st, d) ==
  LET \* line 96: the condition c after n iterations; an Err returns from the visit,
      \* a falsy value ends the loop
      OnCondition(c, n, rest) ==
        IF c.r.k # "Ok" THEN [r |-> c.r, st |-> c.st, how |-> "condition", n |-> n]
        ELSE IF ~is_truthy(c.v) THEN [r |-> Ok, st |-> c.st, how |-> "false", n |-> n]
        ELSE rest
      \* the loop of visit_while_stmt (lines 96-102): how it was left, after n iterations
      RECURSIVE while_loop(_, _, _, _)
      while_loop(stmt_, st_, n, d_) ==
        IF n >= MaxIter THEN [r |-> Diverge, st |-> st_, how |-> "diverge", n |-> n]
        ELSE LET c == evaluate(stmt_.condition, st_, d_)
                 x == execute(stmt_.body, c.st, d_)
             IN OnCondition(c, n, OnBody(x, n, while_loop(stmt_, x.st, n + 1, d_)))
      \* line 95: nest is incremented; history: the activation is pushed
      EnterLoop(st_) ==
        [st_ EXCEPT !.nest = @ + 1, !.loops = <<st_.nextLoop + 1>> \o @, !.nextLoop = @ + 1]
      \* lines 104-105: nest is decremented only where the loop falls through to
      \* line 104; history: the activation is popped and the exit recorded
      LeaveLoop(w, id, nest) ==
        LET left == IF w.how \in {"false", "break"} THEN [w.st EXCEPT !.nest = @ - 1] ELSE w.st
        IN [r |-> w.r,
            st |-> Record([left EXCEPT !.loops = Tail(@)],
                          Event("while", id, nest, left.nest, w.r.k, w.how, w.n))]
  IN
    LeaveLoop(while_loop(stmt, EnterLoop(st), 0, d), st.nextLoop + 1, st.nest)

\* Interpreter::visit_assign_expr
visit_assign_expr(expr, st, d) ==
  LET \* lines 112-117: the value is assigned in the current Environment chain
      AssignValue(expr_, x) ==
        LET a == assign(x.st.heap, x.st.environment, expr_.name, x.v)
        IN IF a.r.k # "Ok" THEN [r |-> a.r, v |-> Nil, st |-> x.st]
           ELSE [r |-> Ok, v |-> x.v, st |-> [x.st EXCEPT !.heap = a.heap]]
  IN
    LET value == evaluate(expr.value, st, d)
    IN TryExpr(value, AssignValue(expr, value))

\* a visit_binary_expr whose subtraction takes the left operand from the right
visit_binary_expr_subtrahend_first(expr, st, d) ==
  LET \* f64 division: exact quotients are numbers of the model, the others are
      \* one value outside it
      Inexact == [t |-> "Num", n |-> 0, s |-> "inexact", b |-> FALSE]
      Divide(left, right) ==
        IF right # 0 /\ left % right = 0 THEN Num(left \div right) ELSE Inexact
      \* the match of visit_binary_expr on the operand pair and the operator
      BinaryNumNum(left, op, right) ==
        CASE op = "Minus" -> Num(right - left)
          [] op = "Slash" -> Divide(left, right)
          [] op = "Star" -> Num(left * right)
          [] op = "Plus" -> Num(left + right)
          [] op = "Greater" -> Bool(left > right)
          [] op = "GreaterEqual" -> Bool(left >= right)
          [] op = "Less" -> Bool(left < right)
          [] op = "LessEqual" -> Bool(left <= right)
          [] op = "BangEqual" -> Bool(left # right)
          [] op = "Equal" -> Bool(left = right)
          [] OTHER -> [t |-> "todo", n |-> 0, s |-> "", b |-> FALSE]
      BinaryResult(left, op, right) ==
        CASE left.t = "Num" /\ right.t = "Num" -> BinaryNumNum(left.n, op, right.n)
          [] left.t = "Num" /\ right.t = "Str" ->
               (IF op = "Plus" THEN Str(ToString(left.n) \o right.s) ELSE ArithmeticError)
          [] left.t = "Str" /\ right.t = "Num" ->
               (IF op = "Plus" THEN Str(left.s \o ToString(right.n)) ELSE ArithmeticError)
          [] left.t = "Str" /\ right.t = "Str" ->
               (CASE op = "Plus" -> Str(left.s \o right.s)
                  [] op = "BangEqual" -> Bool(left.s # right.s)
                  [] op = "Equal" -> Bool(left.s = right.s)
                  [] OTHER -> ArithmeticError)
          [] left.t = "Bool" /\ right.t = "Bool" ->
               (CASE op = "BangEqual" -> Bool(left.b # right.b)
                  [] op = "Equal" -> Bool(left.b = right.b)
                  [] OTHER -> ArithmeticError)
          [] left.t = "Nil" /\ right.t = "Nil" ->
               (CASE op = "BangEqual" -> Bool(FALSE)
                  [] op = "Equal" -> Bool(TRUE)
                  [] OTHER -> ArithmeticError)
          [] left.t = "Nil" ->
               (CASE op = "BangEqual" -> Bool(TRUE)
                  [] op = "Equal" -> Bool(FALSE)
                  [] OTHER -> ArithmeticError)
          [] OTHER -> ArithmeticError
      \* lines 125-180: the match, then the sentinel check
      BinaryOutcome(expr_, left, right) ==
        LET result == BinaryResult(left.v, expr_.operator.type, right.v)
        IN IF result.t = "todo"
             THEN [r |-> Panic("need to work on your code dude"), v |-> Nil, st |-> right.st]
           ELSE IF result = ArithmeticError
             THEN [r |-> RuntimeError(expr_.operator, "Illegal expression"),
                   v |-> Nil, st |-> right.st]
           ELSE [r |-> Ok, v |-> result, st |-> right.st]
  IN
    LET left == evaluate(expr.left, st, d)
        right == evaluate(expr.right, left.st, d)
    IN TryExpr(left, TryExpr(right, BinaryOutcome(expr, left, right)))

\* Interpreter::visit_binary_expr
visit_binary_expr(expr, st, d) ==
  LET \* f64 division: exact quotients are numbers of the model, the others are
      \* one value outside it
      Inexact == [t |-> "Num", n |-> 0, s |-> "inexact", b |-> FALSE]
      Divide(left, right) ==
        IF right # 0 /\ left % right = 0 THEN Num(left \div right) ELSE Inexact
      \* the match of visit_binary_expr on the operand pair and the operator
      BinaryNumNum(left, op, right) ==
        CASE op = "Minus" -> Num(left - right)
          [] op = "Slash" -> Divide(left, right)
          [] op = "Star" -> Num(left * right)
          [] op = "Plus" -> Num(left + right)
          [] op = "Greater" -> Bool(left > right)
          [] op = "GreaterEqual" -> Bool(left >= right)
          [] op = "Less" -> Bool(left < right)
          [] op = "LessEqual" -> Bool(left <= right)
          [] op = "BangEqual" -> Bool(left # right)
          [] op = "Equal" -> Bool(left = right)
          [] OTHER -> [t |-> "todo", n |-> 0, s |-> "", b |-> FALSE]
      BinaryResult(left, op, right) ==
        CASE left.t = "Num" /\ right.t = "Num" -> BinaryNumNum(left.n, op, right.n)
          [] left.t = "Num" /\ right.t = "Str" ->
               (IF op = "Plus" THEN Str(ToString(left.n) \o right.s) ELSE ArithmeticError)
          [] left.t = "Str" /\ right.t = "Num" ->
               (IF op = "Plus" THEN Str(left.s \o ToString(right.n)) ELSE ArithmeticError)
          [] left.t = "Str" /\ right.t = "Str" ->
               (CASE op = "Plus" -> Str(left.s \o right.s)
                  [] op = "BangEqual" -> Bool(left.s # right.s)
                  [] op = "Equal" -> Bool(left.s = right.s)
                  [] OTHER -> ArithmeticError)
          [] left.t = "Bool" /\ right.t = "Bool" ->
               (CASE op = "BangEqual" -> Bool(left.b # right.b)
                  [] op = "Equal" -> Bool(left.b = right.b)
                  [] OTHER -> ArithmeticError)
          [] left.t = "Nil" /\ right.t = "Nil" ->
               (CASE op = "BangEqual" -> Bool(FALSE)
                  [] op = "Equal" -> Bool(TRUE)
                  [] OTHER -> ArithmeticError)
          [] left.t = "Nil" ->
               (CASE op = "BangEqual" -> Bool(TRUE)
                  [] op = "Equal" -> Bool(FALSE)
                  [] OTHER -> ArithmeticError)
          [] OTHER -> ArithmeticError
      \* lines 125-180: the match, then the sentinel check
      BinaryOutcome(expr_, left, right) ==
        LET result == BinaryResult(left.v, expr_.operator.type, right.v)
        IN IF result.t = "todo"
             THEN [r |-> Panic("need to work on your code dude"), v |-> Nil, st |-> right.st]
           ELSE IF result = ArithmeticError
             THEN [r |-> RuntimeError(expr_.operator, "Illegal expression"),
                   v |-> Nil, st |-> right.st]
           ELSE [r |-> Ok, v |-> result, st |-> right.st]
  IN
    LET left == evaluate(expr.left, st, d)
        right == evaluate(expr.right, left.st, d)
    IN TryExpr(left, TryExpr(right, BinaryOutcome(expr, left, right)))

\* SaturdayClass::new: a class as a callable object
SaturdayClass(name) ==
  [name |-> name, params |-> <<>>, statements |-> <<>>, closure |-> 0,
   native |-> FALSE, class |-> TRUE]

\* arity as it would be if every callable took no argument
arity_zero(func) == 0

\* SaturdayCallable::arity: 0 for NativeClock and for SaturdayClass
arity(func) == IF func.native \/ func.class THEN 0 ELSE Len(func.params)

\* SaturdayCallable::call: NativeClock returns a number; SaturdayClass returns
\* an Err (saturday_class.rs lines 41-47); SaturdayFunction runs its body in a
\* fresh Environment enclosing the closure
call(func, st, arguments, d) ==
  LET RECURSIVE bind(_, _, _, _)
      bind(environment, params, arguments_, i) ==
        IF i > Len(params) \/ i > Len(arguments_) THEN environment
        ELSE bind([environment EXCEPT !.values = (params[i].lexeme :> arguments_[i]) @@ @],
                  params, arguments_, i + 1)
      \* SaturdayFunction::call catches the Return signal of its body
      CatchReturn(x) ==
        CASE x.r.k = "Return" -> [r |-> Ok, v |-> x.r.value, st |-> x.st]
          [] x.r.k = "Ok" -> [r |-> Ok, v |-> Nil, st |-> x.st]
          [] OTHER -> [r |-> x.r, v |-> Nil, st |-> x.st]
  IN
    IF func.native THEN [r |-> Ok, v |-> Num(0), st |-> st]
    ELSE IF func.class
      THEN [r |-> SystemError("tried to call a class"), v |-> Nil, st |-> st]
    ELSE IF d >= MaxCallDepth THEN [r |-> Diverge, v |-> Nil, st |-> st]
    ELSE CatchReturn(execute_block(func.statements,
                                   bind(new_with_enclosing(func.closure),
                                        func.params, arguments, 1),
                                   st, d + 1))

\* Interpreter::visit_call_expr
visit_call_expr(expr, st, d) ==
  LET \* the argument loop of visit_call_expr (lines 185-188)
      RECURSIVE evaluate_arguments(_, _, _, _, _)
      evaluate_arguments(arguments, i, acc, st_, d_) ==
        IF i > Len(arguments) THEN [r |-> Ok, v |-> Nil, vs |-> acc, st |-> st_]
        ELSE LET x == evaluate(arguments[i], st_, d_)
             IN IF x.r.k # "Ok" THEN [r |-> x.r, v |-> Nil, vs |-> acc, st |-> x.st]
                ELSE evaluate_arguments(arguments, i + 1, Append(acc, x.v), x.st, d_)
      \* lines 190-208: the callee must be a Func of the right arity
      CallFunction(expr_, callee, args, d_) ==
        IF callee.v.t = "Func"
          THEN IF Len(args.vs) # arity(args.st.funcs[callee.v.n])
                 THEN [r |-> RuntimeError(expr_.paren,
                                          "Expected " \o ToString(arity(args.st.funcs[callee.v.n]))
                                          \o " arguments but got "
                                          \o ToString(Len(args.vs)) \o "."),
                       v |-> Nil, st |-> args.st]
                 ELSE call(args.st.funcs[callee.v.n], args.st, args.vs, d_)
          ELSE [r |-> RuntimeError(expr_.paren, "Can only call function and classes"),
                v |-> Nil, st |-> args.st]
  IN
    LET callee == evaluate(expr.callee, st, d)
        args == evaluate_arguments(expr.arguments, 1, <<>>, callee.st, d)
    IN TryExpr(callee, TryExpr(args, CallFunction(expr, callee, args, d)))

\* visit_logical_expr as it would be if the right operand were evaluated before
\* the left one is looked at
visit_logical_expr_eager(expr, st, d) ==
  LET left == evaluate(expr.left, st, d)
      right == evaluate(expr.right, left.st, d)
  IN TryExpr(left,
       IF (expr.operator.type = "Or") = is_truthy(left.v)
         THEN [r |-> Ok, v |-> left.v, st |-> right.st]
         ELSE right)

\* Interpreter::visit_logical_expr
visit_logical_expr(expr, st, d) ==
  LET left == evaluate(expr.left, st, d)
  IN TryExpr(left,
       IF expr.operator.type = "Or"
         THEN (IF is_truthy(left.v) THEN left ELSE evaluate(expr.right, left.st, d))
         ELSE (IF ~is_truthy(left.v) THEN left ELSE evaluate(expr.right, left.st, d)))

\* Interpreter::visit_unary_expr
visit_unary_expr(expr, st, d) ==
  LET right == evaluate(expr.right, st, d)
  IN TryExpr(right,
      CASE expr.operator.type = "Minus" ->
             [r |-> Ok, v |-> (IF right.v.t = "Num" THEN Num(0 - right.v.n) ELSE Nil),
              st |-> right.st]
        [] expr.operator.type = "Bang" ->
             [r |-> Ok, v |-> Bool(~is_truthy(right.v)), st |-> right.st]
        [] OTHER ->
             [r |-> Error("Unreachable according to Nystrom"), v |-> Nil, st |-> right.st])

\* Interpreter::visit_variable_expr
visit_variable_expr(expr, st) ==
  [r |-> get(st.heap, st.environment, expr.name).r,
   v |-> get(st.heap, st.environment, expr.name).v, st |-> st]

\* Interpreter::evaluate: Expr::accept dispatches on the node kind
evaluate(expr, st, d) ==
  CASE expr.kind = "Assign" -> visit_assign_expr(expr, st, d)
    [] expr.kind = "Binary" -> visit_binary_expr(expr, st, d)
    [] expr.kind = "Call" -> visit_call_expr(expr, st, d)
    [] expr.kind = "Grouping" -> evaluate(expr.expression, st, d)
    [] expr.kind = "Literal" -> [r |-> Ok, v |-> expr.literal, st |-> st]
    [] expr.kind = "Logical" -> visit_logical_expr(expr, st, d)
    [] expr.kind = "Unary" -> visit_unary_expr(expr, st, d)
    [] expr.kind = "Variable" -> visit_variable_expr(expr, st)
    [] OTHER -> [r |-> Panic("no visitor"), v |-> Nil, st |-> st]

\* Interpreter::execute: Stmt::accept dispatches on the node kind
execute(stmt, st, d) ==
  CASE stmt.kind = "Block" -> visit_block_stmt(stmt, st, d)
    [] stmt.kind = "Break" -> visit_break_stmt(stmt, st)
    [] stmt.kind = "Expression" -> visit_expression_stmt(stmt, st, d)
    [] stmt.kind = "Function" -> visit_function_stmt(stmt, st)
    [] stmt.kind = "If" -> visit_if_stmt(stmt, st, d)
    [] stmt.kind = "Print" -> visit_print_stmt(stmt, st, d)
    [] stmt.kind = "Return" -> visit_return_stmt(stmt, st, d)
    [] stmt.kind = "Def" -> visit_def_stmt(stmt, st, d)
    [] stmt.kind = "While" -> visit_while_stmt(stmt, st, d)
    [] OTHER -> [r |-> Panic("no visitor"), st |-> st]

\* is_err as it would be if no result were taken for an error
is_err_never(r) == FALSE

\* Result::is_err: everything but Ok is an Err of the result channel
is_err(r) == r.k # "Ok"

\* Interpreter::interpreter
interpreter(statements, st) ==
  LET \* the loop of Interpreter::interpreter (lines 299-304) over a whole unit
      \* lines 300-303: an Err ends the loop without success
      OnStatement(x, results, rest) ==
        IF is_err(x.r) THEN [success |-> FALSE, st |-> x.st, results |-> Append(results, x.r)]
        ELSE rest
      RECURSIVE interpreter_loop(_, _, _, _)
      interpreter_loop(statements_, i, st_, results) ==
        IF i > Len(statements_) THEN [success |-> TRUE, st |-> st_, results |-> results]
        ELSE LET x == execute(statements_[i], st_, 0)
             IN OnStatement(x, results,
                            interpreter_loop(statements_, i + 1, x.st, Append(results, x.r)))
  IN
    interpreter_loop(statements, 1, [st EXCEPT !.nest = 0], <<>>)

\* Interpreter::new: globals holds the native clock, the slot points at globals
InterpreterNew ==
  LET NativeClock ==
        [name |-> "clock", params |-> <<>>, statements |-> <<>>, closure |-> 0,
         native |-> TRUE, class |-> FALSE]
  IN
    [environment |-> 1, globals |-> 1,
     heap |-> <<[values |-> ("clock" :> Func(1)), enclosing |-> 0]>>,
     funcs |-> <<NativeClock>>,
     nest |-> 0, out |-> <<>>, loops |-> <<>>, nextLoop |-> 0, trace |-> <<>>]

RECURSIVE Reach(_, _, _)
\* Rc: an Environment or a function object is dropped when nothing refers to
\* it any more.  Reach is the set of Environments (E) and function objects (F)
\* that the slot and globals still reach.
Reach(st, E, F) ==
  LET FuncsIn(heap, E_) ==
        {heap[e].values[x].n : <<e, x>> \in
           {<<e, x>> \in UNION {{<<e, x>> : x \in DOMAIN heap[e].values} : e \in E_} :
              heap[e].values[x].t = "Func"}}
  IN
    LET E2 == (E \cup {st.heap[e].enclosing : e \in E}
                 \cup {st.funcs[f].closure : f \in F}) \ {0}
        F2 == F \cup FuncsIn(st.heap, E2)
    IN IF E2 = E /\ F2 = F THEN [E |-> E, F |-> F] ELSE Reach(st, E2, F2)

\* the index of i once the dropped entries are gone
Rank(keep, i) == Cardinality({j \in keep : j <= i})

\* the state between two statements of a unit: the dropped Environments and
\* functions are gone and the history of the last statement is forgotten
Settle(st) ==
  LET Renumber(value, F) == IF value.t = "Func" THEN Func(Rank(F, value.n)) ELSE value
      Kept(seq, keep) ==
        LET n == Cardinality(keep)
            at(k) == CHOOSE i \in keep : Rank(keep, i) = k
        IN [k \in 1..n |-> seq[at(k)]]
  IN
    LET live == Reach(st, {st.globals, st.environment}, {})
        heap == [e \in DOMAIN st.heap |->
                   [values |-> [x \in DOMAIN st.heap[e].values |->
                                  Renumber(st.heap[e].values[x], live.F)],
                    enclosing |-> Rank(live.E, st.heap[e].enclosing)]]
        funcs == [f \in DOMAIN st.funcs |->
                    [st.funcs[f] EXCEPT !.closure = Rank(live.E, @)]]
    IN [st EXCEPT !.heap = Kept(heap, live.E), !.funcs = Kept(funcs, live.F),
                  !.environment = Rank(live.E, @), !.globals = Rank(live.E, @),
                  !.trace = <<>>, !.out = <<>>, !.loops = <<>>, !.nextLoop = 0]

(***************************************************************************)
(* The statements the interpreter is run on: every simple statement, and   *)
(* blocks, ifs, whiles and function declarations nesting them two deep.    *)
(***************************************************************************)
MaxUnitLen == 3     \* top-level statements of one unit

Statements ==
  LET Ident(name) == Token("Identifier", name, 0)
      LitTrue == LiteralExpr(Bool(TRUE))
      LitFalse == LiteralExpr(Bool(FALSE))
      LitOne == LiteralExpr(Num(1))
      VarA == VariableExpr(Ident("a"))
      \* true - 1: an illegal operand pair
      Illegal == BinaryExpr(LitTrue, Token("Minus", "-", 0), LitOne)
      CallF == CallExpr(VariableExpr(Ident("f")), Token("RightParen", ")", 0), <<>>)
      PrintOne == PrintStmt(LitOne)
      SetAFalse == ExpressionStmt(AssignExpr(Ident("a"), LitFalse))
      BreakS == BreakStmt(Token("Break", "break", 0))
      ReturnS == ReturnStmt(Token("Return", "return", 0), NoneNode)
      Simple ==
        {PrintOne, SetAFalse, ExpressionStmt(Illegal), BreakS, ReturnS,
         ExpressionStmt(CallF), DefStmt(Ident("a"), LitTrue)}
      Last == {PrintOne, SetAFalse, BreakS}
      Blocks(S, T) ==
        {BlockStmt(<<x>>) : x \in S} \cup {BlockStmt(<<x, y>>) : x \in S, y \in T}
      Whiles1 ==
        {WhileStmt(c, b) : c \in {LitTrue, VarA}, b \in Blocks(Simple, Last)}
          \cup {WhileStmt(Illegal, BlockStmt(<<PrintOne>>))}
      Ifs1 == {IfStmt(LitTrue, BlockStmt(<<x>>), NoneNode) : x \in Simple}
                 \cup {IfStmt(LitFalse, BlockStmt(<<PrintOne>>), BlockStmt(<<x>>)) : x \in Simple}
      Inner ==
        {WhileStmt(LitTrue, BlockStmt(<<x>>)) : x \in Simple}
          \cup Ifs1 \cup {BlockStmt(<<x>>) : x \in Simple}
          \cup {WhileStmt(LitTrue, BlockStmt(<<IfStmt(LitTrue, BlockStmt(<<BreakS>>), NoneNode)>>)),
                WhileStmt(LitTrue, BlockStmt(<<BlockStmt(<<BreakS>>)>>))}
      Whiles2 == {WhileStmt(c, b) : c \in {LitTrue, VarA}, b \in Blocks(Inner, {SetAFalse})}
      Bodies ==
        {ReturnS, BreakS, PrintOne, ExpressionStmt(Illegal), BlockStmt(<<ReturnS>>),
         WhileStmt(LitTrue, BlockStmt(<<ReturnS>>)), WhileStmt(LitTrue, BlockStmt(<<BreakS>>))}
      Functions == {FunctionStmt(Ident("f"), <<>>, <<x>>) : x \in Bodies}
  IN
    Simple \cup Blocks(Simple, Last) \cup Whiles1 \cup Ifs1
      \cup Blocks(Inner, {SetAFalse}) \cup Whiles2
      \cup Functions

(***************************************************************************)
(* Spec: a session that hands statements to one Interpreter, as the tests  *)
(* of interpreter.rs and Interpreter::interpreter do.                      *)
(***************************************************************************)
\* what the passes returned: r the last statement executed or expression
\* evaluated and v its value, success and n the loop of
\* Interpreter::interpreter; of the current unit, passes the passes that ran,
\* parsed and resolved their results, results those of the top-level
\* statements, out the lines they printed
NoOutcome ==
  [r |-> Ok, v |-> Nil, success |-> TRUE, n |-> 0, passes |-> <<>>, parsed |-> Ok,
   resolved |-> Ok, results |-> <<>>, out |-> <<>>]

(***************************************************************************)
(* SaturdayInstance (saturday_instance.rs): a class and a field table.     *)
(* The history fields sets (the set operations so far, in order) and last  *)
(* (the last operation, its result and the field table before it) are not  *)
(* in the code.                                                            *)
(***************************************************************************)
MaxSets == 3        \* set operations on the instance

\* SaturdayInstance::new, for a class with the methods m and x
SaturdayInstance ==
  LET NoFields == [n \in {} |-> Nil]
      class == [name |-> "C", methods |-> ("m" :> Func(1)) @@ ("x" :> Func(2))]
  IN [class |-> class, fields |-> NoFields, sets |-> <<>>,
      last |-> [op |-> "new", name |-> NoToken, r |-> Ok, v |-> Nil, fields |-> NoFields]]

\* SaturdayClass::find_method: Some(method) or None
find_method(class, name) ==
  IF name \in DOMAIN class.methods
    THEN [some |-> TRUE, v |-> class.methods[name]]
    ELSE [some |-> FALSE, v |-> Nil]

\* SaturdayInstance::get as it would be if the methods of the class were
\* looked up before the fields
SaturdayInstance_get_method_first(inst, name) ==
  IF find_method(inst.class, name.lexeme).some
    THEN [r |-> Ok, v |-> find_method(inst.class, name.lexeme).v]
  ELSE IF name.lexeme \in DOMAIN inst.fields
    THEN [r |-> Ok, v |-> inst.fields[name.lexeme]]
  ELSE [r |-> RuntimeError(name, "Undefined property '" \o name.lexeme \o "'."), v |-> Nil]

\* SaturdayInstance::get; entry() of an absent key leaves the table as it is
SaturdayInstance_get(inst, name) ==
  IF name.lexeme \in DOMAIN inst.fields
    THEN [r |-> Ok, v |-> inst.fields[name.lexeme]]
  ELSE IF find_method(inst.class, name.lexeme).some
    THEN [r |-> Ok, v |-> find_method(inst.class, name.lexeme).v]
  ELSE [r |-> RuntimeError(name, "Undefined property '" \o name.lexeme \o "'."), v |-> Nil]

\* SaturdayInstance::set: insert or overwrite
SaturdayInstance_set(inst, name, value) ==
  [inst EXCEPT !.fields = (name.lexeme :> value) @@ @]

Init ==
  /\ interp = InterpreterNew
  /\ pc = "prompt"
  /\ unit = <<>>
  /\ outcome = NoOutcome
  /\ tokens = <<>>
  /\ parser = Parser(<<>>)
  /\ resolver = Resolver
  /\ units = 0
  /\ instance = SaturdayInstance

\* Interpreter::interpreter is entered (lines 297-298)
BeginInterpreter ==
  /\ pc = "prompt"
  /\ units < MaxUnits
  /\ interp' = [interp EXCEPT !.nest = 0]
  /\ pc' = "running"
  /\ outcome' = NoOutcome
  /\ unit' = <<>>
  /\ units' = units + 1
  /\ UNCHANGED <<tokens, parser, resolver, instance>>

\* the next statement of the unit is executed (line 300)
ExecuteStatement(stmt) ==
  LET \* the Interpreter and the result after a statement was executed
      Executed(x) ==
        /\ interp' = x.st
        /\ outcome' = [outcome EXCEPT !.r = x.r, !.n = @ + 1]
  IN
    /\ pc = "running"
    /\ outcome.n < MaxUnitLen
    /\ Executed(execute(stmt, interp, 0))
    /\ unit' = <<stmt>>
    /\ pc' = "executed"
    /\ UNCHANGED <<tokens, parser, resolver, units, instance>>

\* its result is looked at (lines 300-303): an Err ends the unit without
\* success, a statement that never returned ends the session
CheckResult ==
  /\ pc = "executed"
  /\ pc' = IF outcome.r.k \in {"Panic", "Diverge"} THEN "crashed"
           ELSE IF is_err(outcome.r) THEN "prompt" ELSE "running"
  /\ outcome' = [outcome EXCEPT !.r = Ok, !.success = ~is_err(outcome.r)]
  /\ interp' = Settle(interp)
  /\ unit' = <<>>
  /\ UNCHANGED <<tokens, parser, resolver, units, instance>>

\* the unit has no more statements (line 306)
EndInterpreter ==
  /\ pc = "running"
  /\ pc' = "prompt"
  /\ UNCHANGED <<interp, unit, outcome, tokens, parser, resolver, units, instance>>

Next ==
  \/ BeginInterpreter
  \/ \E stmt \in Statements : ExecuteStatement(stmt)
  \/ CheckResult
  \/ EndInterpreter

Spec == Init /\ [][Next]_vars

(***************************************************************************)
(* SpecRun: a session of Saturday::run (main.rs lines 88-110): each unit   *)
(* is scanned, parsed, resolved and interpreted by the one Interpreter of  *)
(* the session.  A source is made of chunks, each a statement or a         *)
(* malformed statement.                                                    *)
(***************************************************************************)
MaxChunks == 2      \* chunks of one source

Sources ==
  LET Chunks ==
        {<<"print", "1", ";">>,
         <<"def", "a", "=", "true", ";">>,
         <<"return", ";">>,
         <<"def", "x", "=", "x", ";">>,
         <<"{", "def", "x", "=", "x", ";", "}">>,
         <<"fun", "f", "(", ")", "{", "def", "x", "=", "x", ";", "}">>,
         <<"fun", "f", "(", ")", "{", "f", "(", ")", ";", "}">>,
         <<"fun", "f", "(", "a", ")", "{", "return", "a", ";", "}">>,
         <<"print", "f", "(", "1", ")", ";">>,
         <<"{", "def", "a", "=", "1", ";", "print", "a", ";", "}">>,
         <<"{", "def", "a", "=", "1", ";", "{", "a", "=", "2", ";", "}", "}">>,
         <<"{", "a", "=", "1", ";", "}">>,
         <<"{", "print", "a", ";", "}">>,
         <<"while", "true", "{", "break", ";", "}">>,
         <<"print", ";">>,
         <<"1", "=", "2", ";">>,
         <<"print", "1">>,
         <<"def", "a", "=", "1", ";", "{", "def", "a", "=", "2", ";", "print", "a", ";", "}",
           "print", "a", ";">>,
         <<"def", "a", ";", "{", "def", "a", "=", "2", ";", "print", "a", ";", "}",
           "print", "a", ";">>,
         <<"def", "a", "=", "1", ";", "fun", "f", "(", ")", "{", "print", "a", ";", "}",
           "a", "=", "2", ";", "f", "(", ")", ";">>}
      RECURSIVE SourcesOf(_)
      SourcesOf(n) ==
        IF n = 0 THEN {<<>>} ELSE {chunk \o rest : chunk \in Chunks, rest \in SourcesOf(n - 1)}
  IN
    UNION {SourcesOf(n) : n \in 1..MaxChunks}

\* lines 94-96: the source is scanned, a Parser is made for its tokens
ScanTokens(source) ==
  /\ pc = "prompt"
  /\ units < MaxUnits
  /\ tokens' = scan_tokens(source)
  /\ parser' = Parser(scan_tokens(source))
  /\ resolver' = Resolver
  /\ unit' = <<>>
  /\ outcome' = NoOutcome
  /\ pc' = "scanned"
  /\ units' = units + 1
  /\ UNCHANGED <<interp, instance>>

\* lines 97-99: parse()?, then parser.success()
RunParse ==
  LET \* the Parser and the statements after parse() returned x
      Parsed(x) ==
        /\ parser' = x.ps
        /\ unit' = IF x.r.k = "Ok" THEN x.v ELSE <<>>
        /\ outcome' = [outcome EXCEPT !.parsed = x.r, !.passes = Append(@, "parse")]
        /\ pc' = IF x.r.k # "Ok" THEN "returned"
                 ELSE IF success(x.ps) THEN "parsed" ELSE "returned"
  IN
    /\ pc = "scanned"
    /\ Parsed(parse(parser))
    /\ UNCHANGED <<interp, tokens, resolver, units, instance>>

\* lines 100-104: a Resolver is made, resolve()?, then resolver.success()
RunResolve ==
  LET \* the Resolver after resolve() returned x; a panic ends the session
      ResolvedUnit(x) ==
        /\ resolver' = x.rs
        /\ outcome' = [outcome EXCEPT !.resolved = x.r, !.passes = Append(@, "resolve")]
        /\ pc' = IF x.r.k = "Panic" THEN "crashed"
                 ELSE IF x.r.k # "Ok" THEN "returned" ELSE "resolved"
  IN
    /\ pc = "parsed"
    /\ ResolvedUnit(resolve(Resolver, unit))
    /\ UNCHANGED <<interp, tokens, parser, unit, units, instance>>

\* line 105: the unit is interpreted
RunInterpreter ==
  LET Kinds(results) == [i \in DOMAIN results |-> results[i].k]
      \* the Interpreter after interpreter() returned x; a panic or a statement that
      \* never returns ends the session
      Interpreted(x) ==
        /\ interp' = Settle(x.st)
        /\ outcome' = [outcome EXCEPT !.success = x.success, !.results = Kinds(x.results),
                                      !.passes = Append(@, "interpret"),
                                      !.out = x.st.out]
        /\ pc' = IF \E i \in DOMAIN x.results : x.results[i].k \in {"Panic", "Diverge"}
                   THEN "crashed" ELSE "returned"
  IN
    /\ pc = "resolved"
    /\ Interpreted(interpreter(unit, interp))
    /\ UNCHANGED <<tokens, parser, resolver, unit, units, instance>>

\* run returns (line 97, 102 or 109): the Parser, the Resolver and the
\* statements of the unit are dropped
RunReturns ==
  /\ pc = "returned"
  /\ pc' = "prompt"
  /\ tokens' = <<>>
  /\ parser' = Parser(<<>>)
  /\ resolver' = Resolver
  /\ unit' = <<>>
  /\ outcome' = NoOutcome
  /\ UNCHANGED <<interp, units, instance>>

NextRun ==
  \/ \E source \in Sources : ScanTokens(source)
  \/ RunParse
  \/ RunResolve
  \/ RunInterpreter
  \/ RunReturns

SpecRun == Init /\ [][NextRun]_vars

(***************************************************************************)
(* Properties of the interpreter, read off the history of the statement    *)
(* that was just executed.                                                 *)
(***************************************************************************)
\* an event of a visit that returned to its caller
Returned(e) == e.k \in {"Ok", "RuntimeError", "Error", "Break", "Return"}

TraceEvents(ev) == {i \in DOMAIN interp.trace : interp.trace[i].ev = ev}

\* C1: executing a Block leaves the current-environment slot pointing at the
\* Environment it pointed at before the block was entered, whether the block
\* completed, raised a RuntimeError, or let a Break or a Return through.
C1_BlockRestoresEnvironment ==
  \A i \in TraceEvents("block") :
    Returned(interp.trace[i]) => interp.trace[i].b = interp.trace[i].a

\* C1 witness: a block nested in a function's Environment was left by a Return
\* and another block by a Break
C1_Witness ==
  /\ pc = "executed"
  /\ \E i \in TraceEvents("block") : interp.trace[i].k = "Return" /\ interp.trace[i].a > 1
  /\ \E i \in TraceEvents("block") : interp.trace[i].k = "Break"

\* C2: a break executed while no while loop is executing yields a RuntimeError,
\* never a Break signal, whatever was executed earlier in the unit.
C2_BreakOutsideLoopIsRuntimeError ==
  \A i \in TraceEvents("break") :
    interp.trace[i].b = 0 => interp.trace[i].k = "RuntimeError"

\* C3: a break executed inside a while body, however deep in blocks and ifs,
\* raises a Break that the innermost executing while consumes: that while
\* returns Ok, and no other while is ended by it.
C3_BreakEndsInnermostLoop ==
  LET \* only block exits lie strictly between the events i and j
      OnlyBlocksBetween(i, j) == \A m \in (i + 1)..(j - 1) : interp.trace[m].ev = "block"
  IN
    /\ \A i \in TraceEvents("break") :
         interp.trace[i].b > 0 =>
           /\ interp.trace[i].k = "Break"
           /\ \E j \in TraceEvents("while") :
                /\ j > i
                /\ OnlyBlocksBetween(i, j)
                /\ interp.trace[j].id = interp.trace[i].id
                /\ interp.trace[j].how = "break"
                /\ interp.trace[j].k = "Ok"
    /\ \A j \in TraceEvents("while") :
         interp.trace[j].how = "break" =>
           \E i \in TraceEvents("break") :
             /\ i < j
             /\ OnlyBlocksBetween(i, j)
             /\ interp.trace[i].id = interp.trace[j].id
             /\ interp.trace[i].k = "Break"

\* C3 witness: an inner while was ended by a break, the statement after it was
\* executed (a became false) and the outer while went on to evaluate its
\* condition again and ended there
C3_Witness ==
  /\ pc = "executed"
  /\ outcome.r.k = "Ok"
  /\ \E i \in TraceEvents("while"), j \in TraceEvents("while") :
       /\ i < j
       /\ interp.trace[i].how = "break" /\ interp.trace[i].a = 1
       /\ interp.trace[j].how = "false" /\ interp.trace[j].a = 0 /\ interp.trace[j].n = 1
  /\ "a" \in DOMAIN interp.heap[1].values
  /\ interp.heap[1].values["a"] = Bool(FALSE)

\* C4: nest has the same value after visit_while_stmt returns as before it was
\* called, however the loop ended.
C4_WhileRestoresNest ==
  \A i \in TraceEvents("while") :
    Returned(interp.trace[i]) => interp.trace[i].b = interp.trace[i].a

(***************************************************************************)
(* Properties of Saturday::run, read off the passes of the current unit    *)
(* and the histories of its Parser and Resolver.                           *)
(***************************************************************************)
Ran(pass) == \E i \in DOMAIN outcome.passes : outcome.passes[i] = pass

\* C5: for a unit that passed parsing and resolution, the result of each
\* top-level statement in Interpreter::interpreter is Ok, a RuntimeError or an
\* Error; a Break or Return signal never reaches the top-level loop.
C5_NoSignalAtTopLevel ==
  LET \* a result the statement loop of Interpreter::interpreter saw
      Seen(k) == k \notin {"Panic", "Diverge"}
  IN
    Ran("interpret") =>
      \A i \in DOMAIN outcome.results :
        Seen(outcome.results[i]) => outcome.results[i] \in {"Ok", "RuntimeError", "Error"}

ParserEvents(ev) == {i \in DOMAIN parser.trace : parser.trace[i].ev = ev}

\* C6: after a malformed statement that is followed by further tokens, parse()
\* synchronizes and resumes: it does not return with the parser still at the
\* place where the synchronization stopped.
C6_ParseResumesAfterError ==
  LET \* the position where the last synchronize of the unit stopped
      LastSynchronize ==
        parser.trace[CHOOSE i \in ParserEvents("synchronize") :
                       \A j \in ParserEvents("synchronize") : j <= i]
  IN
    (Ran("parse") /\ ParserEvents("synchronize") # {}) =>
      (tokens[LastSynchronize.to + 1].type # "Eof" =>
         parser.current > LastSynchronize.to)

\* C7: when a parse error was reported for the unit, whether by an Err of
\* parse(), through Parser::error or directly through parse_error, neither the
\* resolver nor the interpreter runs on the unit.
C7_ParseErrorSkipsEvaluation ==
  parser.reports # <<>> => ~Ran("resolve") /\ ~Ran("interpret")

\* C7 witness: parse() returned Ok with an error recorded in had_error only,
\* and the run of the unit ended there
C7_Witness ==
  /\ pc = "returned"
  /\ Ran("parse")
  /\ outcome.parsed.k = "Ok"
  /\ parser.had_error
  /\ Len(unit) = 2
  /\ outcome.passes = <<"parse">>

\* every parse error reported for the unit is an invalid assignment target
OnlyInvalidTargets ==
  \A i \in DOMAIN parser.reports : parser.reports[i].msg = "Invalid assignment target."

\* C8: an assignment whose left operand is neither a Variable nor a Get reports
\* "Invalid assignment target." and sets had_error, yet assignment returns Ok:
\* when nothing else is wrong, parse() returns Ok with every token consumed.
C8_InvalidTargetDoesNotAbort ==
  Ran("parse") =>
    /\ \A i \in ParserEvents("invalid target") :
         /\ parser.trace[i].k = "Ok"
         /\ parser.had_error
         /\ ~success(parser)
         /\ \E j \in DOMAIN parser.reports :
              parser.reports[j] = [pos |-> parser.trace[i].pos,
                                   msg |-> "Invalid assignment target."]
    /\ (ParserEvents("invalid target") # {} /\ OnlyInvalidTargets) =>
         /\ outcome.parsed.k = "Ok"
         /\ is_at_end(parser)

\* C8 witness: `1 = 2 ;` followed by another statement: both statements are in
\* the result of parse()
C8_Witness ==
  /\ Ran("parse")
  /\ ParserEvents("invalid target") # {}
  /\ OnlyInvalidTargets
  /\ Len(unit) = 2
  /\ unit[2].kind = "Print"

ResolverEvents(kinds) == {i \in DOMAIN resolver.trace : resolver.trace[i].kind \in kinds}

\* the scopes of a scope stack that contain the name
Containing(scopes, name) == {i \in DOMAIN scopes : name \in DOMAIN scopes[i]}

\* C9: for `def x = x;` at any scope depth with no enclosing x, resolve()
\* returns the error "Can't read local variable in its own initializer.".
C9_SelfReferenceIsAnError ==
  LET \* a Def event of `def x = x;` with no x in any scope around it
      SelfReference(e) ==
        /\ e.initializer.kind = "Variable"
        /\ e.initializer.name.lexeme = e.name
        /\ Containing(e.scopes, e.name) = {}
  IN
    (Ran("resolve") /\ outcome.resolved.k # "Panic") =>
      \A i \in ResolverEvents({"Def"}) :
        SelfReference(resolver.trace[i]) =>
          /\ outcome.resolved.k = "RuntimeError"
          /\ outcome.resolved.msg = "Can't read local variable in its own initializer."

\* C10: a Variable or Assign node whose name is in some tracked scope is put in
\* the side-table with the number of scopes between the innermost scope and
\* the nearest one containing the name; a node whose name is in no tracked
\* scope is resolved without error and gets no entry.
C10_HopCountIsDistance ==
  LET \* a Variable event that reads a name declared but not yet defined in the
      \* innermost scope
      Uninitialized(e) ==
        /\ e.kind = "Variable"
        /\ e.scopes # <<>>
        /\ e.name \in DOMAIN e.scopes[Len(e.scopes)]
        /\ ~e.scopes[Len(e.scopes)][e.name]
      Max(S) == CHOOSE i \in S : \A j \in S : j <= i
  IN
    \A i \in ResolverEvents({"Variable", "Assign"}) :
      LET e == resolver.trace[i]
          found == Containing(e.scopes, e.name)
      IN (~Uninitialized(e) /\ e.k # "RuntimeError") =>
           /\ e.k = "Ok"
           /\ found # {} =>
                /\ e.node \in DOMAIN resolver.locals
                /\ resolver.locals[e.node] = Len(e.scopes) - Max(found)
           /\ found = {} => e.node \notin DOMAIN resolver.locals

\* C11: when the resolution of some node ends in a resolver error, wherever
\* the node is (a function body included), resolve() returns that error for
\* the unit and nothing is resolved after the failing node: the later events
\* are only those of the nodes around it that hand the error on.
C11_ResolverErrorAbortsResolution ==
  (Ran("resolve") /\ outcome.resolved.k # "Panic") =>
    \A i \in DOMAIN resolver.trace :
      resolver.trace[i].k = "RuntimeError" =>
        /\ outcome.resolved.k = "RuntimeError"
        /\ outcome.resolved.msg = resolver.trace[i].msg
        /\ \A j \in DOMAIN resolver.trace : j > i => resolver.trace[j].k = "RuntimeError"

\* C12: on every unit the parser produced, the resolver pass ends with Ok or
\* with a resolver error, never abnormally, and no node is visited twice.
C12_ResolverCompletesEveryVisit ==
  Ran("resolve") =>
    /\ outcome.resolved.k \in {"Ok", "RuntimeError"}
    /\ \A i, j \in DOMAIN resolver.trace :
         (/\ resolver.trace[i].kind = resolver.trace[j].kind
          /\ resolver.trace[i].node = resolver.trace[j].node) => i = j

(***************************************************************************)
(* SpecEval: the harness of the tests of interpreter.rs (lines 313-605): an *)
(* Interpreter is made, some names are defined in it, and one expression   *)
(* node built by hand is given to its visitor.                             *)
(***************************************************************************)
\* the statements that arrange the Interpreter: two functions that print their
\* name and return a truthy and a falsy value, three functions that print
\* their arguments, and a variable
Prelude ==
  LET Ident(name) == Token("Identifier", name, 0)
      Lit(s) == LiteralExpr(Str(s))
      Keyword == Token("Return", "return", 0)
  IN
    <<FunctionStmt(Ident("yes"), <<>>, <<PrintStmt(Lit("yes")), ReturnStmt(Keyword, LiteralExpr(Num(1)))>>),
      FunctionStmt(Ident("no"), <<>>, <<PrintStmt(Lit("no")), ReturnStmt(Keyword, LiteralExpr(Nil))>>),
      FunctionStmt(Ident("f0"), <<>>, <<PrintStmt(Lit("f0"))>>),
      FunctionStmt(Ident("f1"), <<Ident("x")>>, <<PrintStmt(VariableExpr(Ident("x")))>>),
      FunctionStmt(Ident("f2"), <<Ident("x"), Ident("y")>>,
                   <<PrintStmt(VariableExpr(Ident("x"))), PrintStmt(VariableExpr(Ident("y")))>>),
      DefStmt(Ident("a"), LiteralExpr(Num(0)))>>

\* the Interpreter once arranged: the statements of Prelude were executed and a
\* class C is in globals as a callable object (Object::Func of a SaturdayClass)
Arranged ==
  LET DefineClass(st, name) ==
        [st EXCEPT !.funcs = Append(@, SaturdayClass(name)),
                   !.heap = define(@, st.globals, name, Func(Len(st.funcs) + 1))]
  IN DefineClass(interpreter(Prelude, InterpreterNew).st, "C")

\* the expression nodes the visitors are given
Expressions ==
  LET Ident(name) == Token("Identifier", name, 0)
      Var(name) == VariableExpr(Ident(name))
      Paren == Token("RightParen", ")", 0)
      Call(name, arguments) == CallExpr(Var(name), Paren, arguments)
      One == LiteralExpr(Num(1))
      Two == LiteralExpr(Num(2))
      \* true - 1: an illegal operand pair
      Illegal == BinaryExpr(LiteralExpr(Bool(TRUE)), Token("Minus", "-", 0), One)
      Operands ==
        {LiteralExpr(Num(0)), One, Two, LiteralExpr(Str("s")), LiteralExpr(Str("t")),
         LiteralExpr(Bool(TRUE)), LiteralExpr(Bool(FALSE)), LiteralExpr(Nil),
         Var("clock"), Var("f0")}
      Operators ==
        {Token("Minus", "-", 0), Token("Slash", "/", 0), Token("Star", "*", 0),
         Token("Plus", "+", 0), Token("Greater", ">", 0), Token("GreaterEqual", ">=", 0),
         Token("Less", "<", 0), Token("LessEqual", "<=", 0), Token("BangEqual", "!=", 0),
         Token("Equal", "==", 0), Token("Bang", "!", 0), Token("And", "and", 0),
         Token("Assign", "=", 0)}
      Lefts ==
        {One, LiteralExpr(Num(0)), LiteralExpr(Str("s")), LiteralExpr(Bool(TRUE)),
         LiteralExpr(Bool(FALSE)), LiteralExpr(Nil), Var("clock"), Call("yes", <<>>),
         Call("no", <<>>), Illegal}
      Rights ==
        {Two, Call("yes", <<>>), Call("no", <<>>), Illegal, AssignExpr(Ident("a"), One)}
      Callees == {"f0", "f1", "f2", "yes", "clock", "C", "a"}
      Arguments ==
        {<<>>, <<One>>, <<Two>>, <<One, Two>>, <<Two, One>>, <<One, Two, One>>,
         <<Call("yes", <<>>)>>, <<Call("yes", <<>>), Call("no", <<>>)>>,
         <<Call("no", <<>>), One>>, <<Illegal>>}
  IN
    {BinaryExpr(left, operator, right) :
       left \in Operands, operator \in Operators, right \in Operands}
      \cup {LogicalExpr(left, operator, right) :
              left \in Lefts, operator \in {Token("Or", "or", 0), Token("And", "and", 0)},
              right \in Rights}
      \cup {Call(callee, arguments) : callee \in Callees, arguments \in Arguments}

\* the test makes its Interpreter and defines what the expression refers to
Arrange ==
  /\ pc = "prompt"
  /\ interp' = Arranged
  /\ pc' = "arranged"
  /\ outcome' = NoOutcome
  /\ unit' = <<>>
  /\ UNCHANGED <<tokens, parser, resolver, units, instance>>

\* the test gives the node to its visitor and keeps the result
Evaluate(expr) ==
  LET \* the Interpreter and the result after the visitor returned x
      Evaluated(x) ==
        /\ interp' = x.st
        /\ outcome' = [outcome EXCEPT !.r = x.r, !.v = x.v, !.out = x.st.out]
  IN
    /\ pc = "arranged"
    /\ Evaluated(evaluate(expr, interp, 0))
    /\ unit' = <<expr>>
    /\ pc' = "evaluated"
    /\ UNCHANGED <<tokens, parser, resolver, units, instance>>

NextEval ==
  \/ Arrange
  \/ \E expr \in Expressions : Evaluate(expr)

SpecEval == Init /\ [][NextEval]_vars

(***************************************************************************)
(* Properties of the expression visitors, read off the result of the       *)
(* expression that was just evaluated.                                     *)
(***************************************************************************)
\* the node of the given kind that was just evaluated
Given(kind) == pc = "evaluated" /\ unit[1].kind = kind

\* C13: for every operand pair and every operator token type,
\* visit_binary_expr returns Ok with a value that is not the ArithmeticError
\* sentinel, or a RuntimeError "Illegal expression" at the operator token.
C13_BinaryIsValueOrIllegal ==
  Given("Binary") =>
    \/ outcome.r = Ok /\ outcome.v.t \in {"Num", "Str", "Bool", "Nil", "Func"}
    \/ outcome.r = RuntimeError(unit[1].operator, "Illegal expression")

\* C14: equality is reflexive for Num, Str, Bool, Nil and Func values: v == v
\* is Ok(Bool(true)) and v != v is Ok(Bool(false)).
C14_EqualityIsReflexive ==
  (/\ Given("Binary")
   /\ unit[1].left = unit[1].right
   /\ unit[1].operator.type \in {"Equal", "BangEqual"}) =>
    /\ outcome.r = Ok
    /\ outcome.v = Bool(unit[1].operator.type = "Equal")

\* C15: visit_logical_expr evaluates its left operand once and first; for `or`
\* with a truthy left value and for `and` with a falsy one the result is that
\* value itself and the right operand is never evaluated; otherwise the result
\* is what the right operand evaluates to after the left one.
C15_LogicalShortCircuits ==
  Given("Logical") =>
    LET left == evaluate(unit[1].left, Arranged, 0)
        right == evaluate(unit[1].right, left.st, 0)
        short == IF unit[1].operator.type = "Or" THEN left.v.t \notin {"Nil", "Bool"} \/ left.v = Bool(TRUE)
                 ELSE left.v = Nil \/ left.v = Bool(FALSE)
    IN IF left.r # Ok THEN outcome.r = left.r /\ interp = left.st
       ELSE IF short THEN outcome.r = Ok /\ outcome.v = left.v /\ interp = left.st
       ELSE outcome.r = right.r /\ outcome.v = right.v /\ interp = right.st

\* C15 witness: yes() or no() gave the number yes() returned and only yes() was
\* called
C15_Witness ==
  /\ Given("Logical")
  /\ unit[1].operator.type = "Or"
  /\ unit[1].left.kind = "Call" /\ unit[1].left.callee.name.lexeme = "yes"
  /\ unit[1].right.kind = "Call" /\ unit[1].right.callee.name.lexeme = "no"
  /\ outcome.r = Ok
  /\ outcome.v = Num(1)
  /\ interp.out = <<"yes">>

\* C16: a call of a function declared with n parameters, given m arguments
\* that evaluate without error: when m differs from n the result is the
\* RuntimeError "Expected n arguments but got m." at the closing parenthesis
\* and the body is never run; when m = n the body runs exactly once with the
\* argument values bound to the parameters from left to right.
C16_CallChecksArity ==
  LET \* the declaration of the function in the prelude
      Declared(name) ==
        Prelude[CHOOSE i \in DOMAIN Prelude :
                  Prelude[i].kind = "Function" /\ Prelude[i].name.lexeme = name]
      Functions == {Prelude[i].name.lexeme : i \in {j \in DOMAIN Prelude : Prelude[j].kind = "Function"}}
      \* an argument that is a literal or a call of yes or no
      Plain(e) == e.kind = "Literal" \/ (e.kind = "Call" /\ e.arguments = <<>>)
      Value(e) == IF e.kind = "Literal" THEN e.literal
                  ELSE IF e.callee.name.lexeme = "yes" THEN Num(1) ELSE Nil
      Printed(e) == IF e.kind = "Literal" THEN <<>> ELSE <<e.callee.name.lexeme>>
      RECURSIVE ArgumentsOut(_)
      ArgumentsOut(arguments) ==
        IF arguments = <<>> THEN <<>>
        ELSE Printed(Head(arguments)) \o ArgumentsOut(Tail(arguments))
      \* what the body prints with the argument values bound in order
      Index(params, name) == CHOOSE i \in DOMAIN params : params[i].lexeme = name
      RECURSIVE BodyOut(_, _, _)
      BodyOut(f, statements, arguments) ==
        IF statements = <<>> THEN <<>>
        ELSE LET e == Head(statements).expression
             IN (IF Head(statements).kind # "Print" THEN <<>>
                 ELSE IF e.kind = "Literal" THEN <<Display(e.literal)>>
                 ELSE <<Display(Value(arguments[Index(f.params, e.name.lexeme)]))>>)
                  \o BodyOut(f, Tail(statements), arguments)
  IN
    (/\ Given("Call")
     /\ unit[1].callee.name.lexeme \in Functions
     /\ \A i \in DOMAIN unit[1].arguments : Plain(unit[1].arguments[i])) =>
      LET f == Declared(unit[1].callee.name.lexeme)
          n == Len(f.params)
          m == Len(unit[1].arguments)
      IN IF m # n
           THEN /\ outcome.r = RuntimeError(unit[1].paren,
                                            "Expected " \o ToString(n) \o " arguments but got "
                                              \o ToString(m) \o ".")
                /\ interp.out = ArgumentsOut(unit[1].arguments)
           ELSE /\ outcome.r = Ok
                /\ interp.out = ArgumentsOut(unit[1].arguments) \o BodyOut(f, f.statements, unit[1].arguments)

\* C16 witness: f1(yes(), no()) evaluated both arguments in order and then
\* refused the call
C16_Witness ==
  /\ Given("Call")
  /\ unit[1].callee.name.lexeme = "f1"
  /\ Len(unit[1].arguments) = 2
  /\ outcome.r.k = "RuntimeError"
  /\ outcome.r.msg = "Expected 1 arguments but got 2."
  /\ interp.out = <<"yes", "no">>

\* C20: calling a class value with no argument succeeds and yields a new
\* instance of the class.
C20_ClassCallYieldsInstance ==
  (/\ Given("Call")
   /\ unit[1].callee.name.lexeme = "C"
   /\ unit[1].arguments = <<>>) =>
    /\ outcome.r = Ok
    /\ outcome.v.t = "Instance"

(***************************************************************************)
(* Properties of whole programs run by Saturday::run, read off what the    *)
(* unit printed.                                                           *)
(***************************************************************************)
\* the run of the current unit is over
RunEnded == pc \in {"returned", "crashed"} /\ Ran("resolve")

\* C17: a function shares the Environment it was defined in: in a program that
\* defines a variable, declares a function printing it, assigns the variable
\* and calls the function, run through parse, resolve and interpret, the call
\* prints the value assigned.
C17_ClosureSeesLaterAssignment ==
  (/\ RunEnded
   /\ Len(unit) = 4
   /\ unit[1].kind = "Def"
   /\ unit[2].kind = "Function"
   /\ Len(unit[2].statements) = 1
   /\ unit[2].statements[1].kind = "Print"
   /\ unit[2].statements[1].expression.kind = "Variable"
   /\ unit[2].statements[1].expression.name.lexeme = unit[1].name.lexeme
   /\ unit[3].kind = "Expression" /\ unit[3].expression.kind = "Assign"
   /\ unit[3].expression.name.lexeme = unit[1].name.lexeme
   /\ unit[3].expression.value.kind = "Literal"
   /\ unit[4].kind = "Expression" /\ unit[4].expression.kind = "Call") =>
    outcome.out = <<Display(unit[3].expression.value.literal)>>

\* C18: a Def binds its name only in the current Environment: in a program
\* that defines a name, re-defines it in a block that prints it, and prints it
\* again after the block, the block prints the inner value without error and
\* the statement after it prints the outer value.
C18_DefShadowsInBlock ==
  LET \* the value a Def binds: that of its initializer, or Nil when absent
      Bound(stmt) == IF stmt.initializer.kind = "None" THEN Nil ELSE stmt.initializer.literal
  IN
    (/\ Ran("interpret")
     /\ Len(unit) = 3
     /\ unit[1].kind = "Def" /\ unit[1].initializer.kind \in {"Literal", "None"}
     /\ unit[2].kind = "Block" /\ Len(unit[2].statements) = 2
     /\ unit[2].statements[1].kind = "Def"
     /\ unit[2].statements[1].name.lexeme = unit[1].name.lexeme
     /\ unit[2].statements[1].initializer.kind = "Literal"
     /\ unit[2].statements[2].kind = "Print"
     /\ unit[2].statements[2].expression.kind = "Variable"
     /\ unit[2].statements[2].expression.name.lexeme = unit[1].name.lexeme
     /\ unit[3].kind = "Print"
     /\ unit[3].expression.kind = "Variable"
     /\ unit[3].expression.name.lexeme = unit[1].name.lexeme) =>
      /\ outcome.success
      /\ outcome.results = <<"Ok", "Ok", "Ok">>
      /\ outcome.out = <<Display(Bound(unit[2].statements[1])), Display(Bound(unit[1]))>>
      /\ interp.heap[interp.globals].values[unit[1].name.lexeme] = Bound(unit[1])

\* C18 witness: the program of the scenario printed 2 then 1
C18_Witness ==
  /\ Ran("interpret")
  /\ Len(unit) = 3
  /\ unit[2].kind = "Block"
  /\ unit[2].statements[1].kind = "Def"
  /\ outcome.out = <<"2", "1">>
  /\ interp.heap[interp.globals].values["a"] = Num(1)

\* C19: Interpreter::interpreter executes the top-level statements in order
\* and stops at the first one that returns an error: the results it saw are
\* those of a prefix of the unit, all Ok but possibly the last, and it returns
\* true exactly when every statement of the unit was executed without error.
\* Nothing is printed by a statement after the failing one: when the
\* statements before it are prints of literals and it is itself a Print or a
\* Return (which print nothing when they fail: no function of the sources
\* prints in a Print), the output is exactly the lines of those prints.
C19_InterpreterStopsAtFirstError ==
  LET n == Len(outcome.results)
      AllOk == \A i \in 1..n : outcome.results[i] = "Ok"
      \* the lines a unit of prints of literals prints up to its kth statement
      RECURSIVE Lines(_)
      Lines(k) == IF k = 0 THEN <<>> ELSE Append(Lines(k - 1), Display(unit[k].expression.literal))
      \* the statements that were executed without error
      Failed == IF AllOk THEN n ELSE n - 1
  IN
    (/\ Ran("interpret")
     /\ \A i \in 1..n : outcome.results[i] \notin {"Panic", "Diverge"}) =>
      /\ n <= Len(unit)
      /\ \A i \in 1..(n - 1) : outcome.results[i] = "Ok"
      /\ n < Len(unit) => ~AllOk
      /\ outcome.success <=> (n = Len(unit) /\ AllOk)
      /\ (/\ \A i \in 1..Failed : unit[i].kind = "Print" /\ unit[i].expression.kind = "Literal"
          /\ AllOk \/ unit[n].kind \in {"Print", "Return"}) =>
           outcome.out = Lines(Failed)

\* C19 witness: the first of two statements returned a RuntimeError: the print
\* after it was not executed and interpreter returned false
C19_Witness ==
  /\ Ran("interpret")
  /\ Len(unit) = 2
  /\ unit[2].kind = "Print"
  /\ outcome.results = <<"RuntimeError">>
  /\ ~outcome.success
  /\ outcome.out = <<>>

(***************************************************************************)
(* SpecInstance: a session of get and set operations on one                *)
(* SaturdayInstance.                                                       *)
(***************************************************************************)
\* instance.set(name, value)
SetField(name, value) ==
  /\ Len(instance.sets) < MaxSets
  /\ instance' = [SaturdayInstance_set(instance, name, value) EXCEPT
                    !.sets = Append(@, [name |-> name.lexeme, value |-> value]),
                    !.last = [op |-> "set", name |-> name, r |-> Ok, v |-> value,
                              fields |-> instance.fields]]
  /\ UNCHANGED <<interp, pc, unit, outcome, tokens, parser, resolver, units>>

\* instance.get(name)
GetField(name) ==
  /\ instance' = [instance EXCEPT
                    !.last = [op |-> "get", name |-> name,
                              r |-> SaturdayInstance_get(instance, name).r,
                              v |-> SaturdayInstance_get(instance, name).v,
                              fields |-> instance.fields]]
  /\ UNCHANGED <<interp, pc, unit, outcome, tokens, parser, resolver, units>>

NextInstance ==
  \/ \E n \in {"x", "y", "m"}, value \in {Num(1), Num(2), Nil} :
       SetField(Token("Identifier", n, 0), value)
  \/ \E n \in {"x", "y", "m"} : GetField(Token("Identifier", n, 0))

SpecInstance == Init /\ [][NextInstance]_vars

\* C21: get(name) returns the value most recently set for the name when there
\* was such a set, even when the class has a method of that name; otherwise
\* the method of that name when the class has one; otherwise the RuntimeError
\* "Undefined property".  A set never fails and binds the name to the value;
\* a get leaves the field table as it was.
C21_GetReturnsLastSetOrMethod ==
  LET name == instance.last.name.lexeme
      SetsOf == {i \in DOMAIN instance.sets : instance.sets[i].name = name}
      Latest == instance.sets[CHOOSE i \in SetsOf : \A j \in SetsOf : j <= i]
  IN
    /\ instance.last.op = "get" =>
         /\ instance.fields = instance.last.fields
         /\ IF SetsOf # {}
              THEN instance.last.r = Ok /\ instance.last.v = Latest.value
            ELSE IF name \in DOMAIN instance.class.methods
              THEN instance.last.r = Ok /\ instance.last.v = instance.class.methods[name]
            ELSE /\ instance.last.r.k = "RuntimeError"
                 /\ instance.last.r.token = instance.last.name
                 /\ instance.last.r.msg = "Undefined property '" \o name \o "'."
    /\ instance.last.op = "set" =>
         /\ instance.last.r = Ok
         /\ name \in DOMAIN instance.fields
         /\ instance.fields[name] = instance.last.v
         /\ \A other \in DOMAIN instance.last.fields \ {name} :
              other \in DOMAIN instance.fields
                /\ instance.fields[other] = instance.last.fields[other]

\* C21 witness: x, which is also a method of the class, was set twice and the
\* get returned the second value
C21_Witness ==
  /\ instance.last.op = "get"
  /\ instance.last.name.lexeme = "x"
  /\ instance.sets = <<[name |-> "x", value |-> Num(1)], [name |-> "x", value |-> Num(2)]>>
  /\ instance.last.v = Num(2)

(***************************************************************************)
(* SpecParse: the scanner's output is given to Parser::parse (main.rs      *)
(* lines 94-99) for sources that exercise the statement forms of the       *)
(* parser: if, for, class, function and call with short and with very long *)
(* parameter and argument lists, and malformed statements.                 *)
(***************************************************************************)
ParseSources ==
  LET Chunks ==
        {<<"print", "1", ";">>,
         <<"print", "1">>,
         <<")">>,
         <<"if", "a", "{", "print", "1", ";", "}">>,
         <<"if", "a", "{", "print", "1", ";", "}", "else", "{", "print", "2", ";", "}">>,
         <<"if", "a", "print", "1", ";">>,
         <<"if", "a">>,
         <<"if", "a", "{", "print", "1", ";", "}", "else", "print", "2", ";">>,
         <<"if", "a", "{", "print", "1", ";", "}", "else", "if", "a", "{", "print", "2", ";", "}">>,
         <<"for", "def", "a", "=", "1", ";", "a", "<", "2", ";", "a", "=", "a", "+", "1",
           "{", "print", "a", ";", "}">>,
         <<"for", "a", "=", "1", ";", "a", "<", "2", ";", "a", "=", "2", "{", "print", "a", ";", "}">>,
         <<"for", ";", "a", "<", "2", ";", "a", "=", "2", "{", "print", "a", ";", "}">>,
         <<"for", "def", "a", "=", "1", ";", ";", "a", "=", "2", "{", "print", "a", ";", "}">>,
         <<"for", "def", "a", "=", "1", ";", "a", "<", "2", ";", "{", "print", "a", ";", "}">>,
         <<"for", ";", ";", "{", "print", "1", ";", "}">>,
         <<"for", "(", "def", "a", "=", "1", ";", "a", "<", "2", ";", "a", "=", "a", "+", "1", ")",
           "{", "print", "a", ";", "}">>,
         <<"for", "(", ";", ";", ")", "{", "print", "1", ";", "}">>,
         <<"class", "A", "{", "m", "(", ")", "{", "}", "n", "(", "a", ")", "{", "}", "}">>,
         <<"fun", "f", "(", "a", ",", "b", ")", "{", "print", "a", ";", "}">>,
         <<"f", "(", "1", ",", "2", ")", ";">>}
      RECURSIVE SourcesOf(_)
      SourcesOf(n) ==
        IF n = 0 THEN {<<>>} ELSE {chunk \o rest : chunk \in Chunks, rest \in SourcesOf(n - 1)}
      \* sources that end inside a block and inside a class body
      Unclosed == {<<"{", "print", "1", ";">>,
                   <<"class", "A", "{", "m", "(", ")", "{", "}">>,
                   <<"class", "A", "{", "m", "(", ")", "{">>}
      \* n times a comma and the lexeme
      Repeat(lexeme, n) == [i \in 1..(2 * n) |-> IF i % 2 = 1 THEN "," ELSE lexeme]
      \* a call with n arguments and a function with n parameters, each followed
      \* by another statement
      CallOf(n) ==
        <<"f", "(", "1">> \o Repeat("1", n - 1) \o <<")", ";", "print", "1", ";">>
      FunctionOf(n) ==
        <<"fun", "f", "(", "a">> \o Repeat("a", n - 1)
          \o <<")", "{", "print", "1", ";", "}", "print", "1", ";">>
  IN
    UNION {SourcesOf(n) : n \in 0..MaxChunks}
      \cup Unclosed
      \cup {CallOf(n) : n \in (MaxArguments - 1)..(MaxArguments + 2)}
      \cup {FunctionOf(n) : n \in (MaxArguments - 1)..(MaxArguments + 2)}

NextParse ==
  \/ \E source \in ParseSources : ScanTokens(source)
  \/ RunParse
  \/ RunReturns

SpecParse == Init /\ [][NextParse]_vars

(***************************************************************************)
(* Properties of Parser::parse on the sources of SpecParse.                *)
(***************************************************************************)
\* C22: when the parser reports "Can't have more than 255 parameters." or
\* "Can't have more than 255 arguments.", the parse is marked unsuccessful but
\* goes on: no other parse error is raised, parse() returns Ok with every
\* token consumed, and the statement after the declaration or call is in its
\* result.
C22_LimitErrorIsNotFatal ==
  LET Limit(report) ==
        report.msg \in {"Can't have more than 255 parameters.",
                        "Can't have more than 255 arguments."}
  IN
    (Ran("parse") /\ \E i \in DOMAIN parser.reports : Limit(parser.reports[i])) =>
      /\ parser.had_error
      /\ ~success(parser)
      /\ \A i \in DOMAIN parser.reports : Limit(parser.reports[i])
      /\ outcome.parsed = Ok
      /\ is_at_end(parser)
      /\ Len(unit) = 2
      /\ unit[2].kind = "Print"

\* C23: an if statement whose condition is not followed by '{' is rejected
\* with the parse error "then branch must wrap by '{}'." at that token, and one
\* whose 'else' is not followed by '{' (an 'else if' included) with "else
\* branch must wrap by '{}'." at that token; with braces around each branch,
\* the statement parses to one If node whose then branch is the first Block and
\* whose else branch is the second Block, or absent when there is no 'else'.
C23_IfBranchesAreBraced ==
  LET T(i) == IF i \in DOMAIN tokens THEN tokens[i].type ELSE "None"
      Rejected(i, message) ==
        /\ outcome.parsed.k = "ParseError"
        /\ outcome.parsed.msg = message
        /\ outcome.parsed.token = tokens[i]
      \* the statements before token i are print statements of one literal
      Before(i) == \A j \in 1..(i - 1) : T(j) = <<"Print", "Number", "SemiColon">>[((j - 1) % 3) + 1]
      \* the '}' of the block opened at token i, whose statements have no block
      Close(i) == CHOOSE j \in i..Len(tokens) :
                    T(j) = "RightBrace" /\ \A m \in i..(j - 1) : T(m) # "RightBrace"
      \* the node is the block of the one print statement written at token i
      IsBlock(node, i) ==
        /\ node.kind = "Block"
        /\ Len(node.statements) = 1
        /\ node.statements[1].kind = "Print"
        /\ node.statements[1].expression = LiteralExpr(tokens[i + 2].literal)
      \* the if statement at token i, the n-th statement of the unit
      IfAt(i, n) ==
        IF T(i + 2) # "LeftBrace"
          THEN Rejected(i + 2, "then branch must wrap by '{}'.")
        ELSE IF T(Close(i + 2) + 1) = "Else" /\ T(Close(i + 2) + 2) # "LeftBrace"
          THEN Rejected(Close(i + 2) + 2, "else branch must wrap by '{}'.")
        ELSE outcome.parsed.k = "Ok" =>
               /\ Len(unit) >= n
               /\ unit[n].kind = "If"
               /\ unit[n].condition.kind = "Variable"
               /\ unit[n].condition.name = tokens[i + 1]
               /\ IsBlock(unit[n].then_branch, i + 2)
               /\ IF T(Close(i + 2) + 1) = "Else"
                    THEN IsBlock(unit[n].else_branch, Close(i + 2) + 2)
                    ELSE unit[n].else_branch = NoneNode
  IN
    Ran("parse") =>
      \A n \in 1..2 :
        (T(3 * n - 2) = "If" /\ T(3 * n - 1) = "Identifier" /\ Before(3 * n - 2)) =>
          IfAt(3 * n - 2, n)

\* an 'else if' is rejected at the second 'if'
C23_Witness ==
  /\ Ran("parse")
  /\ \E i \in DOMAIN tokens :
       /\ tokens[i].type = "Else"
       /\ i + 1 \in DOMAIN tokens
       /\ tokens[i + 1].type = "If"
       /\ outcome.parsed = ParseError(tokens[i + 1], "else branch must wrap by '{}'.")

\* C24: for two Num operands a and b, visit_binary_expr returns Ok for each of
\* the ten operators: Num(a - b), Num(a + b), Num(a * b), for '/' with b not 0
\* and a divisible by b the Num q with q * b = a, and Bool of the comparison
\* of a and b for '<', '<=', '>', '>=', '==' and '!='.
C24_NumNumIsNative ==
  LET a == unit[1].left.literal.n
      b == unit[1].right.literal.n
      op == unit[1].operator.lexeme
      IsNum(n) == outcome.v.t = "Num" /\ outcome.v.n = n /\ outcome.v.s = ""
      IsBool(v) == outcome.v.t = "Bool" /\ outcome.v.b = v
  IN
    (/\ Given("Binary")
     /\ unit[1].left.kind = "Literal" /\ unit[1].left.literal.t = "Num"
     /\ unit[1].right.kind = "Literal" /\ unit[1].right.literal.t = "Num"
     /\ op \in {"-", "+", "*", "/", "<", "<=", ">", ">=", "==", "!="}) =>
      /\ outcome.r = Ok
      /\ op = "-" => IsNum(a - b)
      /\ op = "+" => IsNum(a + b)
      /\ op = "*" => IsNum(a * b)
      /\ op = "/" => outcome.v.t = "Num"
      /\ (op = "/" /\ b # 0 /\ a % b = 0) => (outcome.v.n * b = a /\ outcome.v.s = "")
      /\ op = "<" => IsBool(a < b)
      /\ op = "<=" => IsBool(a <= b)
      /\ op = ">" => IsBool(a > b)
      /\ op = ">=" => IsBool(a >= b)
      /\ op = "==" => IsBool(a = b)
      /\ op = "!=" => IsBool(a # b)

\* 1 - 2 was evaluated to -1
C24_Witness ==
  /\ Given("Binary")
  /\ unit[1].left = LiteralExpr(Num(1))
  /\ unit[1].right = LiteralExpr(Num(2))
  /\ unit[1].operator.type = "Minus"
  /\ outcome.r = Ok
  /\ outcome.v = Num(0 - 1)

\* C25: a for statement, written with or without parentheses around its
\* clauses, is accepted and parsed to Block[I, While(C, Block[B, Expression(N)])]
\* of its initializer I, condition C, increment N and body B: without a
\* condition the While has the literal true, without an increment its body is B
\* itself, and without an initializer the result is the While itself.
C25_ForDesugarsToWhile ==
  LET T(i) == IF i \in DOMAIN tokens THEN tokens[i].type ELSE "None"
      Of(type) == {i \in DOMAIN tokens : T(i) = type}
      Min(S) == CHOOSE i \in S : \A j \in S : i <= j
      \* the first token of the clauses, the two ';' between them, the '{' of
      \* the body
      first == IF T(2) = "LeftParen" THEN 3 ELSE 2
      brace == Min(Of("LeftBrace"))
      semi1 == Min({i \in Of("SemiColon") : i < brace})
      semi2 == Min({i \in Of("SemiColon") : semi1 < i /\ i < brace})
      HasInitializer == semi1 > first
      HasCondition == semi2 > semi1 + 1
      HasIncrement == T(semi2 + 1) \notin {"LeftBrace", "RightParen"}
      \* the one for statement of the source, with a braced body
      OneFor ==
        /\ T(1) = "For"
        /\ Of("For") = {1}
        /\ Of("LeftBrace") = {brace}
        /\ Of("RightBrace") = {Len(tokens) - 1}
        /\ \E i, j \in Of("SemiColon") : i < j /\ j < brace
      IsBody(node) == node.kind = "Block" /\ node.statements[1].kind = "Print"
      IsWhile(node) ==
        /\ node.kind = "While"
        /\ IF HasCondition THEN node.condition.kind = "Binary"
                           ELSE node.condition = LiteralExpr(Bool(TRUE))
        /\ IF HasIncrement
             THEN /\ node.body.kind = "Block"
                  /\ Len(node.body.statements) = 2
                  /\ IsBody(node.body.statements[1])
                  /\ node.body.statements[2].kind = "Expression"
                  /\ node.body.statements[2].expression.kind = "Assign"
             ELSE IsBody(node.body)
  IN
    (Ran("parse") /\ OneFor) =>
      /\ outcome.parsed = Ok
      /\ Len(unit) = 1
      /\ IF HasInitializer
           THEN /\ unit[1].kind = "Block"
                /\ Len(unit[1].statements) = 2
                /\ unit[1].statements[1].kind \in {"Def", "Expression"}
                /\ IsWhile(unit[1].statements[2])
           ELSE IsWhile(unit[1])

C27_ParseTerminatesWithinTokens ==
  LET Eof == Len(tokens) - 1
      EndsWithOneEof ==
        /\ tokens # <<>>
        /\ {i \in DOMAIN tokens : tokens[i].type = "Eof"} = {Len(tokens)}
      event(i) == parser.trace[i]
  IN
    (Ran("parse") /\ EndsWithOneEof) =>
      /\ outcome.parsed.k \in {"Ok", "ParseError"}
      /\ outcome.parsed.k = "Ok" => parser.current = Eof
      /\ parser.current <= Eof
      /\ outcome.parsed.token.type # "OutOfRange"
      /\ \A i \in DOMAIN parser.reports : parser.reports[i].pos \in DOMAIN tokens
      /\ \A i \in ParserEvents("iteration") :
           /\ event(i).to <= Eof
           /\ event(i).k = "Ok" => event(i).to > event(i).pos
      /\ \A i \in ParserEvents("synchronize") :
           /\ event(i).to <= Eof
           /\ event(i).to >= 1

\* a block that is not closed: its loop took the print statement and ended at
\* Eof, the error was raised there, and synchronize did not move the cursor
C27_Witness ==
  /\ Ran("parse")
  /\ tokens[1].type = "LeftBrace"
  /\ outcome.parsed.k = "ParseError"
  /\ outcome.parsed.token.type = "Eof"
  /\ parser.current = Len(tokens) - 1
  /\ \E i \in ParserEvents("iteration") :
       parser.trace[i].k = "Ok" /\ parser.trace[i].to > parser.trace[i].pos
  /\ \E i \in ParserEvents("synchronize") : parser.trace[i].to = parser.trace[i].pos

====
